---------------------------- MODULE Spec2Model ----------------------------
(***************************************************************************)
(* Model of the download-utils archive and image acquisition code:         *)
(*   - path sanitizing (sanitizeFilename, sanitizeFilepath, pathJoin)      *)
(*   - ArchiveTool: file map, cached container, work queue, toBlob         *)
(*   - SubdirectoryHandle                                                  *)
(*   - batchDelayForEach                                                   *)
(*   - imageToBlobHelper / startImageDownload (strategy failover)          *)
(* Strings are sequences of one-character strings, so that the string      *)
(* operations of the code (trim, split, replace, startsWith) are computed. *)
(***************************************************************************)
EXTENDS Integers, Sequences, FiniteSets, TLC

(***************************************************************************)
(* Generic sequence helpers                                                *)
(***************************************************************************)
Range(s) == {s[i] : i \in 1..Len(s)}

Min2(a, b) == IF a <= b THEN a ELSE b

\* String.prototype.startsWith
StartsWith(s, prefix) ==
    /\ Len(prefix) <= Len(s)
    /\ SubSeq(s, 1, Len(prefix)) = prefix

\* String.prototype.endsWith
EndsWith(s, suffix) ==
    /\ Len(suffix) <= Len(s)
    /\ SubSeq(s, Len(s) - Len(suffix) + 1, Len(s)) = suffix

\* String.prototype.lastIndexOf(c), as the 1-based position, 0 when absent
\* (the code's -1)
LastIndexOf(s, c) ==
    LET hits == {i \in 1..Len(s) : s[i] = c}
    IN  IF hits = {} THEN 0 ELSE CHOOSE i \in hits : \A j \in hits : j <= i

\* s with every element of class removed: replace(/[class]+/g, '')
RECURSIVE RemoveAll(_, _)
RemoveAll(s, class) ==
    IF s = <<>> THEN <<>>
    ELSE IF Head(s) \in class THEN RemoveAll(Tail(s), class)
    ELSE <<Head(s)>> \o RemoveAll(Tail(s), class)

\* s with every maximal run of elements of class replaced by one rep:
\* replace(/[class]+/g, rep)
RECURSIVE ReplaceRuns(_, _, _)
ReplaceRuns(s, class, rep) ==
    IF s = <<>> THEN <<>>
    ELSE IF Head(s) \in class
         THEN IF Len(s) > 1 /\ s[2] \in class
              THEN ReplaceRuns(Tail(s), class, rep)
              ELSE <<rep>> \o ReplaceRuns(Tail(s), class, rep)
         ELSE <<Head(s)>> \o ReplaceRuns(Tail(s), class, rep)

\* replace(/^c+/, '')
RECURSIVE StripLeading(_, _)
StripLeading(s, class) ==
    IF s # <<>> /\ Head(s) \in class THEN StripLeading(Tail(s), class) ELSE s

\* replace(/c+$/, '')
RECURSIVE StripTrailing(_, _)
StripTrailing(s, class) ==
    IF s # <<>> /\ s[Len(s)] \in class
    THEN StripTrailing(SubSeq(s, 1, Len(s) - 1), class)
    ELSE s

\* String.prototype.split(sep) for a one-character separator
RECURSIVE Split(_, _)
Split(s, sep) ==
    LET hits == {i \in 1..Len(s) : s[i] = sep}
    IN  IF hits = {} THEN <<s>>
        ELSE LET i == CHOOSE k \in hits : \A j \in hits : k <= j
             IN  <<SubSeq(s, 1, i - 1)>> \o Split(SubSeq(s, i + 1, Len(s)), sep)

\* Array.prototype.join(sep)
RECURSIVE Join(_, _)
Join(parts, sep) ==
    IF parts = <<>> THEN <<>>
    ELSE IF Len(parts) = 1 THEN parts[1]
    ELSE parts[1] \o <<sep>> \o Join(Tail(parts), sep)

\* Array.prototype.filter over a sequence, keeping the elements of keep
RECURSIVE FilterSeq(_, _)
FilterSeq(s, keep) ==
    IF s = <<>> THEN <<>>
    ELSE IF Head(s) \in keep THEN <<Head(s)>> \o FilterSeq(Tail(s), keep)
    ELSE FilterSeq(Tail(s), keep)

(***************************************************************************)
(* Character classes of the sanitizers                                     *)
(***************************************************************************)
\* /[\\/:*?"<>|]/
InvalidChars == {"\\", "/", ":", "*", "?", "\"", "<", ">", "|"}

\* /[\u0000-\u001f\u007f]/ : the control characters the model's alphabet has
ControlChars == {"\t", "\n"}

\* /\s/ : the white space the model's alphabet has
WhiteSpace == {" ", "\t", "\n"}

\* String.prototype.trim
Trim(s) == StripTrailing(StripLeading(s, WhiteSpace), WhiteSpace)

\* isNonEmptyString for a value that is a string
isNonEmptyString(s) == Trim(s) # <<>>

FileWord == <<"f", "i", "l", "e">>

sanitizeFilename(name) ==
    IF ~isNonEmptyString(name) THEN FileWord
    ELSE LET base == Trim(name)
             swapped == ReplaceRuns(base, InvalidChars, "-")
             noCtl == RemoveAll(swapped, ControlChars)
             spaced == ReplaceRuns(noCtl, WhiteSpace, " ")
             noLead == StripLeading(spaced, {"."})
             cleaned == StripTrailing(noLead, {"."})
         IN  IF isNonEmptyString(cleaned) THEN cleaned ELSE FileWord

\* faulty variant: the '.' and '..' segments are not dropped
sanitizeFilepathKeepsDots(path) ==
    LET normalized == [i \in 1..Len(path) |-> IF path[i] = "\\" THEN "/" ELSE path[i]]
        hasTrailing == normalized # <<>> /\ normalized[Len(normalized)] = "/"
        segments == Split(normalized, "/")
        trimmed == [i \in 1..Len(segments) |-> Trim(segments[i])]
        kept == FilterSeq(trimmed, Range(trimmed) \ {<<>>})
        parts == [i \in 1..Len(kept) |-> sanitizeFilename(kept[i])]
        cleaned == Join(parts, "/")
    IN  IF cleaned = <<>> THEN FileWord
        ELSE IF hasTrailing THEN cleaned \o <<"/">> ELSE cleaned

sanitizeFilepath(path) ==
    LET normalized == [i \in 1..Len(path) |-> IF path[i] = "\\" THEN "/" ELSE path[i]]
        hasTrailing == normalized # <<>> /\ normalized[Len(normalized)] = "/"
        segments == Split(normalized, "/")
        trimmed == [i \in 1..Len(segments) |-> Trim(segments[i])]
        kept == FilterSeq(trimmed, Range(trimmed) \ {<<>>, <<".">>, <<".", ".">>})
        parts == [i \in 1..Len(kept) |-> sanitizeFilename(kept[i])]
        cleaned == Join(parts, "/")
    IN  IF cleaned = <<>> THEN FileWord
        ELSE IF hasTrailing THEN cleaned \o <<"/">> ELSE cleaned

\* pathJoin(...parts): parts is the sequence of the defined string arguments
pathJoin(parts) ==
    LET keep == {p \in Range(parts) : isNonEmptyString(p)}
    IN  sanitizeFilepath(Join(FilterSeq(parts, keep), "/"))


(***************************************************************************)
(* Bounds and input alphabets                                              *)
(***************************************************************************)
\* most entries a store is given by addFile calls
MaxFiles == 3
\* most operations ever pushed on the work queues in one run
MaxOps == 3
\* most items handed to one addImages / batchDelayForEach call
MaxItems == 3
\* most strategy attempts the acquisition model lets happen
MaxAttempts == 4
\* most member calls made on the SubdirectoryHandle in one run
MaxCalls == 3

Stores == {"A", "B"}
Blobs == {"b1", "b2"}
Drains == {"d1", "d2"}

P_a == <<"a">>
P_ab == <<"a", "/", "b">>
P_adir == <<"a", "/">>
P_dots == <<"a", "/", "/", ".", ".", "/", "b", ".", "p">>
P_a1b == <<"a", " ", "(", "1", ")", "/", "b">>
P_d == <<"d", "/">>
P_dx == <<"d", "/", "x", ".", "p">>
P_ax == <<"a", "/", "x", ".", "p">>
P_x == <<"x", ".", "p">>

\* the raw paths callers pass to addFile / renameFile / getSafePath
InputPaths == {P_a, P_ab, P_adir, P_dots, P_a1b}
\* the directory argument of addImage / addImages (<<>>: not given)
ImageDirs == {<<>>, P_d}
\* the file name an acquisition resolves to
ImageNames == {P_x}

(***************************************************************************)
(* ArchiveTool: the file map and getSafePath                               *)
(* The file map #files is a sequence of [path, blob] entries with distinct *)
(* paths, in insertion order (the order Object.entries iterates).          *)
(***************************************************************************)
Keys(fs) == {fs[i].path : i \in 1..Len(fs)}

\* Object.prototype.hasOwnProperty.call(this.#files, k) and (k in this.#files)
hasOwn(fs, k) == k \in Keys(fs)

\* this.#files[k]
Lookup(fs, k) == (CHOOSE e \in Range(fs) : e.path = k).blob

\* this.#files[k] = blob
Assign(fs, k, blob) ==
    IF hasOwn(fs, k)
    THEN [i \in 1..Len(fs) |-> IF fs[i].path = k THEN [path |-> k, blob |-> blob] ELSE fs[i]]
    ELSE Append(fs, [path |-> k, blob |-> blob])

\* delete this.#files[k]
Delete(fs, k) == FilterSeq(fs, {e \in Range(fs) : e.path # k})

DigitChars == <<"0", "1", "2", "3", "4", "5", "6", "7", "8", "9">>

\* `${counter}`
RECURSIVE Decimal(_)
Decimal(n) ==
    IF n < 10 THEN <<DigitChars[n + 1]>>
    ELSE Decimal(n \div 10) \o <<DigitChars[(n % 10) + 1]>>

\* faulty variant: the directory check for a file candidate is left out
conflictsOnlyExactName(fs, isDir, ignoringPaths, filepath) ==
    IF isDir THEN hasOwn(fs, StripTrailing(filepath, {"/"})) ELSE FALSE

\* the closure conflictsWithExistingDirectory of getSafePath
conflictsWithExistingDirectory(fs, isDir, ignoringPaths, filepath) ==
    IF isDir
    THEN hasOwn(fs, StripTrailing(filepath, {"/"}))
    ELSE \E existingPath \in Keys(fs) :
            /\ existingPath \notin ignoringPaths
            /\ StartsWith(existingPath, filepath \o <<"/">>)

\* faulty variant: the suffix of a file candidate goes after the extension
nextCandidateAtEnd(basePath, isDir, counter) ==
    LET suffix == <<" ", "(">> \o Decimal(counter) \o <<")">>
    IN  IF isDir THEN StripTrailing(basePath, {"/"}) \o suffix \o <<"/">>
        ELSE basePath \o suffix

\* the body of getSafePath's while loop: the candidate for this counter
nextCandidate(basePath, isDir, counter) ==
    LET suffix == <<" ", "(">> \o Decimal(counter) \o <<")">>
    IN  IF isDir
        THEN StripTrailing(basePath, {"/"}) \o suffix \o <<"/">>
        ELSE LET lastSlash == LastIndexOf(basePath, "/")
                 filename == SubSeq(basePath, lastSlash + 1, Len(basePath))
                 dir == SubSeq(basePath, 1, lastSlash)
                 dotIndex == LastIndexOf(filename, ".")
             IN  IF dotIndex > 1
                 THEN dir \o SubSeq(filename, 1, dotIndex - 1) \o suffix
                          \o SubSeq(filename, dotIndex, Len(filename))
                 ELSE dir \o filename \o suffix

\* the loop condition of getSafePath
collides(fs, isDir, ignoringPaths, candidate) ==
    \/ hasOwn(fs, candidate)
    \/ conflictsWithExistingDirectory(fs, isDir, ignoringPaths, candidate)

RECURSIVE safeLoop(_, _, _, _, _, _)
safeLoop(fs, basePath, isDir, ignoringPaths, candidate, counter) ==
    IF collides(fs, isDir, ignoringPaths, candidate)
    THEN safeLoop(fs, basePath, isDir, ignoringPaths,
                  nextCandidate(basePath, isDir, counter), counter + 1)
    ELSE candidate

getSafePath(fs, path, ignoringPaths) ==
    LET basePath == sanitizeFilepath(path)
        isDir == EndsWith(basePath, <<"/">>)
    IN  safeLoop(fs, basePath, isDir, ignoringPaths, basePath, 1)

\* createZip: one container entry per entry of the file map
createZip(fs) == {<<fs[i].path, fs[i].blob>> : i \in 1..Len(fs)}

\* the value of #archive when it is undefined
NoZip == [set |-> FALSE, zip |-> {}]

\* faulty variant: the cached container survives a write
markDirtyKeepsCache(cache) == cache

\* markDirty: this.#archive = undefined
markDirty(cache) == NoZip

\* the files getter followed by addFile's three statements, on the map alone
addFileTo(fs, filepath, blob) == Assign(fs, getSafePath(fs, filepath, {}), blob)


(***************************************************************************)
(* State                                                                   *)
(***************************************************************************)
VARIABLES
    files,      \* [store -> #files]
    archive,    \* [store -> #archive], NoZip when undefined
    workQueue,  \* [store -> #workQueue], a sequence of operation ids
    ops,        \* the promises ever pushed on a work queue, by id
    drain,      \* [drain -> the position of one toBlob call]
    handle,     \* the SubdirectoryHandle the caller holds
    addLog,     \* history: [store -> the addFile calls made, in order]
    lastCall,   \* history: the last call recorded, its arguments and how it ended
    batch,      \* one batchDelayForEach call
    acq         \* one acquisition (imageToBlobHelper or startImageDownload)

vars == <<files, archive, workQueue, ops, drain, handle, addLog, lastCall, batch, acq>>

\* a toBlob call that has not been made
IdleDrain ==
    [pc |-> "idle", store |-> "A", snapshot |-> {}, count |-> 0, callOps |-> {},
     given |-> NoZip]

NoHandle == [exists |-> FALSE, path |-> <<>>, parent |-> "null", isDeleted |-> FALSE]
NoCall ==
    [member |-> "none", args |-> <<>>, outcome |-> "none", wasDeleted |-> FALSE,
     wasReparented |-> FALSE, reparented |-> FALSE, count |-> 0]
NoBatch == [pc |-> "idle"]
NoAcq == [pc |-> "idle"]

OpIds == 1..Len(ops)
OpsOf(s) == {o \in OpIds : ops[o].store = s}
Pending(o) == ops[o].state = "pending"

Init ==
    /\ files = [s \in Stores |-> <<>>]
    /\ archive = [s \in Stores |-> NoZip]
    /\ workQueue = [s \in Stores |-> <<>>]
    /\ ops = <<>>
    /\ drain = [d \in Drains |-> IdleDrain]
    /\ handle = NoHandle
    /\ addLog = [s \in Stores |-> <<>>]
    /\ lastCall = NoCall
    /\ batch = NoBatch
    /\ acq = NoAcq

(***************************************************************************)
(* ArchiveTool: synchronous mutations                                      *)
(***************************************************************************)
\* addFile(filepath, file)
AddFile(s, filepath, blob) ==
    /\ Len(files[s]) < MaxFiles
    /\ files' = [files EXCEPT ![s] = addFileTo(@, filepath, blob)]
    /\ archive' = [archive EXCEPT ![s] = markDirty(@)]
    /\ UNCHANGED <<workQueue, ops, drain, handle, addLog, lastCall, batch, acq>>

\* addFile(filepath, file), with the call recorded in the history addLog
AddFileLogged(s, filepath, blob) ==
    /\ Len(files[s]) < MaxFiles
    /\ Len(addLog[s]) < MaxFiles
    /\ files' = [files EXCEPT ![s] = addFileTo(@, filepath, blob)]
    /\ archive' = [archive EXCEPT ![s] = markDirty(@)]
    /\ addLog' = [addLog EXCEPT ![s] =
                    Append(@, [path |-> getSafePath(files[s], filepath, {}), blob |-> blob])]
    /\ UNCHANGED <<workQueue, ops, drain, handle, lastCall, batch, acq>>

\* renameFile(path, newPath) on the map alone: the early return, then the
\* safe path computed while the old key is still present
renameFileIn(fs, path, newPath) ==
    IF ~hasOwn(fs, path) THEN fs
    ELSE LET safe == getSafePath(fs, newPath, {})
         IN  Delete(Assign(fs, safe, Lookup(fs, path)), path)

\* what renameFile does to #archive: it does not call markDirty
renameFileCache(cache) == cache

RenameFile(s, path, newPath) ==
    /\ files' = [files EXCEPT ![s] = renameFileIn(@, path, newPath)]
    /\ archive' = [archive EXCEPT ![s] = renameFileCache(@)]
    /\ UNCHANGED <<workQueue, ops, drain, handle, addLog, lastCall, batch, acq>>

\* deleteFile(path, recursive) on the map alone: no stored value is a
\* SubdirectoryHandle, so only the exact key is deleted
deleteFileIn(fs, path, recursive) ==
    IF ~hasOwn(fs, path) THEN fs ELSE Delete(fs, path)

\* what deleteFile does to #archive: it does not call markDirty
deleteFileCache(cache) == cache

DeleteFile(s, path, recursive) ==
    /\ files' = [files EXCEPT ![s] = deleteFileIn(@, path, recursive)]
    /\ archive' = [archive EXCEPT ![s] = deleteFileCache(@)]
    /\ UNCHANGED <<workQueue, ops, drain, handle, addLog, lastCall, batch, acq>>

(***************************************************************************)
(* ArchiveTool: the work queue                                             *)
(***************************************************************************)
ImageOp(s, parent, dir, name, blob) ==
    [kind |-> "image", state |-> "pending", store |-> s, parent |-> parent,
     dir |-> dir, name |-> name, blob |-> blob, n |-> 0, bs |-> 0, i |-> 0, bpc |-> "none"]

BatchOp(s, dir, name, blob, n, bs) ==
    [kind |-> "batch", state |-> "pending", store |-> s, parent |-> 0,
     dir |-> dir, name |-> name, blob |-> blob, n |-> n, bs |-> bs, i |-> 0, bpc |-> "await"]

\* addToWorkQueue: the promises are pushed in the order given
addToWorkQueue(queue, ids) == queue \o ids

\* the ids first..first+k-1, in order
IdRun(first, k) == [j \in 1..k |-> first + j - 1]

\* addImage(image, filepathOrOptions, directory): addImageHelper runs up to
\* its await of imageToBlob and its promise is pushed
AddImage(s, dir, name, blob) ==
    /\ Len(ops) < MaxOps
    /\ ops' = Append(ops, ImageOp(s, 0, dir, name, blob))
    /\ workQueue' = [workQueue EXCEPT ![s] = addToWorkQueue(@, <<Len(ops) + 1>>)]
    /\ UNCHANGED <<files, archive, drain, handle, addLog, lastCall, batch, acq>>

\* addImages(images, {batchSize}, directory): batchDelayForEach runs up to its
\* first await, so the callbacks of the first slice push their operations
\* before the promise of the batch itself is pushed
AddImages(s, dir, name, blob, n, bs) ==
    /\ Len(ops) + n + 1 <= MaxOps
    /\ LET k == Min2(bs, n)
           first == Len(ops) + 1
           outer == first + k
       IN  /\ ops' = ops \o [j \in 1..k |-> ImageOp(s, outer, dir, name, blob)]
                         \o <<BatchOp(s, dir, name, blob, n, bs)>>
           /\ workQueue' = [workQueue EXCEPT ![s] =
                              addToWorkQueue(addToWorkQueue(@, IdRun(first, k)), <<outer>>)]
    /\ UNCHANGED <<files, archive, drain, handle, addLog, lastCall, batch, acq>>

\* addImageHelper after its await: imageToBlob fulfilled (ok) and the file is
\* added, or it rejected and the error is caught; the promise settles
ImageSettle(o, ok) ==
    /\ o \in OpIds
    /\ ops[o].kind = "image"
    /\ Pending(o)
    /\ LET s == ops[o].store
           filepath == pathJoin(<<ops[o].dir, ops[o].name>>)
       IN  IF ok
           THEN /\ files' = [files EXCEPT ![s] = addFileTo(@, filepath, ops[o].blob)]
                /\ archive' = [archive EXCEPT ![s] = markDirty(@)]
           ELSE UNCHANGED <<files, archive>>
    /\ ops' = [ops EXCEPT ![o].state = "settled"]
    /\ UNCHANGED <<workQueue, drain, handle, addLog, lastCall, batch, acq>>

ChildrenOf(o) == {c \in OpIds : ops[c].parent = o}

\* batchDelayForEach inside addImages: Promise.allSettled of the slice
\* resolved; either the delay starts or the loop ends and the batch settles
BatchSliceDone(o) ==
    /\ o \in OpIds
    /\ ops[o].kind = "batch"
    /\ ops[o].bpc = "await"
    /\ \A c \in ChildrenOf(o) : ~Pending(c)
    /\ ops' = IF ops[o].i + ops[o].bs < ops[o].n
              THEN [ops EXCEPT ![o].bpc = "delay"]
              ELSE [ops EXCEPT ![o].bpc = "done", ![o].state = "settled"]
    /\ UNCHANGED <<files, archive, workQueue, drain, handle, addLog, lastCall, batch, acq>>

\* batchDelayForEach inside addImages: the delay elapsed; the callbacks of the
\* next slice push their operations
BatchDelayElapsed(o) ==
    /\ o \in OpIds
    /\ ops[o].kind = "batch"
    /\ ops[o].bpc = "delay"
    /\ LET i2 == ops[o].i + ops[o].bs
           k == Min2(ops[o].bs, ops[o].n - i2)
           first == Len(ops) + 1
           s == ops[o].store
       IN  /\ ops' = [ops EXCEPT ![o].i = i2, ![o].bpc = "await"]
                        \o [j \in 1..k |-> ImageOp(s, o, ops[o].dir, ops[o].name, ops[o].blob)]
           /\ workQueue' = [workQueue EXCEPT ![s] = addToWorkQueue(@, IdRun(first, k))]
    /\ UNCHANGED <<files, archive, drain, handle, addLog, lastCall, batch, acq>>

(***************************************************************************)
(* ArchiveTool: completeWorkQueue and toBlob                               *)
(***************************************************************************)
\* Promise.allSettled(snapshot) has resolved
allSettled(snapshot) == \A o \in snapshot : ~Pending(o)

\* this.#workQueue.splice(0, count)
splice(queue, count) == SubSeq(queue, count + 1, Len(queue))

\* the operations a toBlob call made now has to wait for: those queued before
\* the call, and those they enqueue
Required(callOps) == callOps \cup {o \in OpIds : ops[o].parent \in callOps}

\* (archive ?? this.archive).generateAsync: the container that is serialized,
\* and the value #archive has afterwards
zipUsed(given, cache, fs) ==
    IF given.set THEN given.zip
    ELSE IF cache.set THEN cache.zip ELSE createZip(fs)

cacheAfter(given, cache, fs) ==
    IF given.set THEN cache
    ELSE IF cache.set THEN cache ELSE [set |-> TRUE, zip |-> createZip(fs)]

\* the container toBlob call d serializes when it resumes in this state
Serialized(d) == zipUsed(drain[d].given, archive[drain[d].store], files[drain[d].store])

\* toBlob call d after it has handed the container to generateAsync
Built(d) == [drain[d] EXCEPT !.pc = "done", !.snapshot = {}, !.count = 0]

\* toBlob(archive?): completeWorkQueue runs up to its first await (or returns
\* at once when the queue is empty)
ToBlobCall(d, s, given) ==
    /\ drain[d].pc \in {"idle", "done"}
    /\ drain' = [drain EXCEPT ![d] =
                   [IdleDrain EXCEPT
                      !.pc = IF workQueue[s] = <<>> THEN "resolved" ELSE "awaiting",
                      !.store = s,
                      !.snapshot = Range(workQueue[s]),
                      !.count = Len(workQueue[s]),
                      !.callOps = OpsOf(s),
                      !.given = given]]
    /\ UNCHANGED <<files, archive, workQueue, ops, handle, addLog, lastCall, batch, acq>>

\* completeWorkQueue resumed after Promise.allSettled: the awaited promises
\* are spliced off; the loop awaits what is left, or ends and toBlob builds
\* and serializes the container
DrainResume(d) ==
    /\ drain[d].pc = "awaiting"
    /\ allSettled(drain[d].snapshot)
    /\ LET s == drain[d].store
           rest == splice(workQueue[s], drain[d].count)
       IN  /\ workQueue' = [workQueue EXCEPT ![s] = rest]
           /\ IF rest # <<>>
              THEN /\ drain' = [drain EXCEPT ![d].snapshot = Range(rest),
                                             ![d].count = Len(rest)]
                   /\ UNCHANGED archive
              ELSE /\ drain' = [drain EXCEPT ![d] = Built(d)]
                   /\ archive' = [archive EXCEPT ![s] =
                                    cacheAfter(drain[d].given, @, files[s])]
    /\ UNCHANGED <<files, ops, handle, addLog, lastCall, batch, acq>>

\* toBlob resumed after completeWorkQueue found the queue empty at the call
ToBlobSerialize(d) ==
    /\ drain[d].pc = "resolved"
    /\ drain' = [drain EXCEPT ![d] = Built(d)]
    /\ archive' = [archive EXCEPT ![drain[d].store] =
                     cacheAfter(drain[d].given, @, files[drain[d].store])]
    /\ UNCHANGED <<files, workQueue, ops, handle, addLog, lastCall, batch, acq>>

\* no toBlob call is between its call and its serialization
NoDrainInFlight == \A d \in Drains : drain[d].pc \in {"idle", "done"}


(***************************************************************************)
(* Specifications of the archive store                                     *)
(***************************************************************************)
\* the keys renameFile / deleteFile are called with: stored or not
CallPaths == Keys(files["A"]) \cup InputPaths

\* one store under addFile, renameFile and deleteFile
NextPaths ==
    \/ \E p \in InputPaths : AddFile("A", p, "b1")
    \/ \E p \in CallPaths, np \in InputPaths : RenameFile("A", p, np)
    \/ \E p \in CallPaths, r \in BOOLEAN : DeleteFile("A", p, r)

SpecPaths == Init /\ [][NextPaths]_vars

\* one store under addFile, renameFile, deleteFile and toBlob
NextCache ==
    \/ \E p \in {P_a, P_ab}, b \in Blobs : AddFile("A", p, b)
    \/ \E p \in CallPaths : RenameFile("A", p, P_a)
    \/ \E p \in CallPaths, r \in BOOLEAN : DeleteFile("A", p, r)
    \/ ToBlobCall("d1", "A", NoZip)
    \/ ToBlobSerialize("d1")

SpecCache == Init /\ [][NextCache]_vars

\* one store under addFile and toBlob only
NextAdd ==
    \/ \E p \in InputPaths, b \in Blobs : AddFileLogged("A", p, b)
    \/ ToBlobCall("d1", "A", NoZip)
    \/ ToBlobSerialize("d1")

SpecAdd == Init /\ [][NextAdd]_vars

\* one store under addImage, addImages and toBlob calls that do not overlap
NextSolo ==
    \/ AddImage("A", P_d, P_x, "b1")
    \/ \E n \in 1..MaxItems, bs \in 1..MaxItems : AddImages("A", P_d, P_x, "b1", n, bs)
    \/ \E o \in OpIds, ok \in BOOLEAN : ImageSettle(o, ok)
    \/ \E o \in OpIds : BatchSliceDone(o)
    \/ \E o \in OpIds : BatchDelayElapsed(o)
    \/ NoDrainInFlight /\ ToBlobCall("d1", "A", NoZip)
    \/ DrainResume("d1")
    \/ ToBlobSerialize("d1")

SpecSolo == Init /\ [][NextSolo]_vars

\* one store under addImage, addImages and toBlob calls that may overlap
NextOverlap ==
    \/ AddImage("A", P_d, P_x, "b1")
    \/ \E n \in 1..MaxItems, bs \in 1..MaxItems : AddImages("A", P_d, P_x, "b1", n, bs)
    \/ \E o \in OpIds, ok \in BOOLEAN : ImageSettle(o, ok)
    \/ \E o \in OpIds : BatchSliceDone(o)
    \/ \E o \in OpIds : BatchDelayElapsed(o)
    \/ \E d \in Drains : ToBlobCall(d, "A", NoZip)
    \/ \E d \in Drains : DrainResume(d)
    \/ \E d \in Drains : ToBlobSerialize(d)

SpecOverlap == Init /\ [][NextOverlap]_vars

(***************************************************************************)
(* Claims about the archive store                                          *)
(***************************************************************************)
\* C1: for every path p that is a key of the file map, getSafePath(p) returns
\* a path that differs from p, is not a key, and is not the directory of any
\* key (no key starts with it followed by '/').
C1_SafePathIsFresh ==
    \A p \in Keys(files["A"]) :
        LET r == getSafePath(files["A"], p, {})
        IN  /\ r # p
            /\ r \notin Keys(files["A"])
            /\ \A k \in Keys(files["A"]) : ~StartsWith(k, r \o <<"/">>)

\* C1 witness: "a" is stored and its first candidate "a (1)" is taken as a
\* directory by the stored "a (1)/b", so the loop has to go on to "a (2)".
C1_Witness ==
    /\ P_a \in Keys(files["A"])
    /\ P_a1b \in Keys(files["A"])
    /\ getSafePath(files["A"], P_a, {}) = <<"a", " ", "(", "2", ")">>

\* C2: the file map never holds an entry at key k together with an entry
\* whose key starts with k + '/', in whichever order they were written.
C2_NoFileDirectoryConflict ==
    \A k1 \in Keys(files["A"]), k2 \in Keys(files["A"]) :
        ~StartsWith(k2, k1 \o <<"/">>)

\* toBlob call d builds and serializes its container in this step
Builds(d) == drain[d].pc # "done" /\ drain'[d].pc = "done"

\* the entries of a file map, as container entries
Entries(fs) == {<<e.path, e.blob>> : e \in Range(fs)}

\* C3: every toBlob serializes exactly the file map as it is when the
\* container is built, whatever mutations and toBlob calls came before.
C3_ToBlobSerializesCurrentMap ==
    [][\A d \in Drains :
          Builds(d) => Serialized(d) = Entries(files[drain[d].store])]_vars

\* C4: after addFile and toBlob calls only, the serialized container holds
\* one entry per addFile call made so far, keyed by the path that call stored
\* and holding that call's blob; no call overwrote or dropped another's entry.
C4_OneEntryPerAddFile ==
    [][\A d \in Drains :
          Builds(d) =>
             LET log == addLog[drain[d].store]
             IN  /\ Serialized(d) = {<<log[i].path, log[i].blob>> : i \in 1..Len(log)}
                 /\ Cardinality(Serialized(d)) = Len(log)
                 /\ \A i \in 1..Len(log), j \in 1..Len(log) :
                       i # j => log[i].path # log[j].path]_vars

\* C4 witness: a container was built after two addFile calls of the same
\* path, the second stored under the collision-resolved name.
C4_Witness ==
    /\ drain["d1"].pc = "done"
    /\ Len(addLog["A"]) >= 2
    /\ archive["A"].set
    /\ <<P_a, "b1">> \in archive["A"].zip
    /\ <<<<"a", " ", "(", "1", ")">>, "b2">> \in archive["A"].zip

\* C5: when a toBlob call builds its container, every operation queued before
\* the call, and every operation those operations enqueued, has settled.
C5_DrainedBeforeSerialize ==
    [][\A d \in Drains :
          Builds(d) => \A o \in Required(drain[d].callOps) : ~Pending(o)]_vars


(***************************************************************************)
(* batchDelayForEach(array, callback, {delayMS, batchSize})                *)
(* Item k of the array has the value Item(k); the callback called for it   *)
(* fulfils with that value, rejects with it, or (a callback that is not    *)
(* async) throws it before returning a promise.                            *)
(***************************************************************************)
Behaviours == {"ok", "reject", "throw"}

Item(k) == 10 + k

\* the settled result of the callback promise of item k
Outcome(b, k) ==
    [status |-> IF b.behav[k] = "ok" THEN "fulfilled" ELSE "rejected", value |-> Item(k)]

\* slice.map(callback) for the slice that starts after index i: the callbacks
\* are called in order, each with its item, i + index and the array that map
\* hands to its callback, which is the slice; one that throws ends the map,
\* and the function rejects
startSlice(b, i) ==
    LET hi == Min2(i + b.bs, b.n)
        slice == (i + 1)..hi
        throwers == {k \in slice : b.behav[k] = "throw"}
        stop == IF throwers = {} THEN hi + 1
                ELSE CHOOSE k \in throwers : \A j \in throwers : k <= j
    IN  [b EXCEPT
            !.i = i,
            !.status = [k \in 1..b.n |->
                          IF k \in slice /\ k < stop THEN "pending"
                          ELSE IF k \in throwers /\ k = stop THEN "threw"
                          ELSE b.status[k]],
            !.calls = b.calls \o [j \in 1..(Min2(stop, hi) - i) |->
                          [item |-> Item(i + j), index |-> i + j,
                           array |-> [m \in 1..(hi - i) |-> Item(i + m)]]],
            !.pc = IF throwers = {} THEN "await" ELSE "rejected"]

\* the loop head: the next slice starts, or the loop is over and the
\* results are returned
loopFrom(b, i) == IF i < b.n THEN startSlice(b, i) ELSE [b EXCEPT !.i = i, !.pc = "returned"]

\* faulty variant: the results of a slice are pushed in the order its callbacks settled
sliceResultsByCompletion(b) ==
    LET hi == Min2(b.i + b.bs, b.n)
        done == FilterSeq(b.order, {k \in Range(b.order) : k > b.i /\ k <= hi})
    IN  [j \in 1..Len(done) |-> Outcome(b, done[j])]

\* await Promise.allSettled(slice.map(...)): one result per member of the
\* slice, in the order of the slice
sliceResults(b) ==
    LET hi == Min2(b.i + b.bs, b.n)
    IN  [j \in 1..(hi - b.i) |-> Outcome(b, b.i + j)]

NewBatch(n, bs, behav) ==
    [pc |-> "idle", n |-> n, bs |-> bs, behav |-> behav, i |-> 0,
     status |-> [k \in 1..n |-> "notcalled"], calls |-> <<>>, order |-> <<>>,
     results |-> <<>>, delays |-> 0]

\* batchDelayForEach is called: it runs up to its first await
BatchCall ==
    /\ batch.pc = "idle"
    /\ batch' = loopFrom(batch, 0)
    /\ UNCHANGED <<files, archive, workQueue, ops, drain, handle, addLog, lastCall, acq>>

\* the promise of the callback of item k settles
CallbackSettles(k) ==
    /\ batch.pc \in {"await", "rejected"}
    /\ k \in 1..batch.n
    /\ batch.status[k] = "pending"
    /\ batch' = [batch EXCEPT !.status[k] = Outcome(batch, k).status,
                              !.order = Append(@, k)]
    /\ UNCHANGED <<files, archive, workQueue, ops, drain, handle, addLog, lastCall, acq>>

\* faulty variant: the next slice starts with no delay after the one before
BatchSliceSettledNoDelay ==
    /\ batch.pc = "await"
    /\ \A k \in 1..batch.n : batch.status[k] # "pending"
    /\ batch' = loopFrom([batch EXCEPT !.results = @ \o sliceResults(batch)],
                         batch.i + batch.bs)
    /\ UNCHANGED <<files, archive, workQueue, ops, drain, handle, addLog, lastCall, acq>>

\* Promise.allSettled of the slice resolved: the results are pushed; the
\* delay starts, or the loop ends
BatchSliceSettled ==
    /\ batch.pc = "await"
    /\ \A k \in 1..batch.n : batch.status[k] # "pending"
    /\ LET pushed == [batch EXCEPT !.results = @ \o sliceResults(batch)]
       IN  batch' = IF batch.i + batch.bs < batch.n
                    THEN [pushed EXCEPT !.pc = "delay"]
                    ELSE loopFrom(pushed, batch.i + batch.bs)
    /\ UNCHANGED <<files, archive, workQueue, ops, drain, handle, addLog, lastCall, acq>>

\* the history counter delays stops counting here; a call over n items in
\* slices of one or more goes through fewer than n delays
MaxDelays == MaxItems

\* delay(delayMS) resolved: the loop goes on with the next slice
BatchDelayDone ==
    /\ batch.pc = "delay"
    /\ batch' = loopFrom([batch EXCEPT !.delays = Min2(@ + 1, MaxDelays)],
                         batch.i + batch.bs)
    /\ UNCHANGED <<files, archive, workQueue, ops, drain, handle, addLog, lastCall, acq>>

InitBatch ==
    /\ files = [s \in Stores |-> <<>>]
    /\ archive = [s \in Stores |-> NoZip]
    /\ workQueue = [s \in Stores |-> <<>>]
    /\ ops = <<>>
    /\ drain = [d \in Drains |-> IdleDrain]
    /\ handle = NoHandle
    /\ addLog = [s \in Stores |-> <<>>]
    /\ lastCall = NoCall
    /\ acq = NoAcq
    /\ \E n \in 0..MaxItems, bs \in 1..MaxItems :
          \E behav \in [1..n -> Behaviours] : batch = NewBatch(n, bs, behav)

NextBatch ==
    \/ BatchCall
    \/ \E k \in 1..MaxItems : CallbackSettles(k)
    \/ BatchSliceSettled
    \/ BatchDelayDone

SpecBatch == InitBatch /\ [][NextBatch]_vars

\* C8: when batchDelayForEach returns, it returns one settled result per item
\* and result k is the outcome of the callback called for item k, in whatever
\* order the callbacks of a slice settled.
C8_ResultsInInputOrder ==
    batch.pc = "returned" =>
        /\ Len(batch.results) = batch.n
        /\ \A k \in 1..batch.n : batch.results[k] = Outcome(batch, k)

\* C8 witness: a call over three items in two slices has returned, the
\* callbacks of the first slice having settled in the reverse of their order.
C8_Witness ==
    /\ batch.pc = "returned"
    /\ batch.n = 3
    /\ batch.bs = 2
    /\ batch.order = <<2, 1, 3>>
    /\ batch.behav[2] = "reject"

\* C9: a failing callback never keeps another callback from being called and
\* never makes batchDelayForEach itself reject: the call returns, every
\* callback has been called, and the failure is the rejected result of its item.
C9_FailureIsIsolated ==
    /\ batch.pc # "rejected"
    /\ batch.pc = "returned" =>
          \A k \in 1..batch.n :
              /\ batch.status[k] \notin {"notcalled", "threw"}
              /\ batch.results[k] = Outcome(batch, k)

\* the slice of item k, counted from 0
sliceOf(k) == (k - 1) \div batch.bs

\* C17: a callback of a slice is called only when every callback of the
\* slices before it has settled and one delay per slice before it has
\* elapsed; at most batchSize callbacks are pending at any time; no delay
\* follows the last slice, and a call over n > 0 items that returns has gone
\* through exactly ceil(n / batchSize) - 1 delays.
C17_SlicesOneAfterTheOther ==
    LET called == {k \in 1..batch.n : batch.status[k] # "notcalled"}
        slices == (batch.n + batch.bs - 1) \div batch.bs
    IN  /\ \A k \in called :
              /\ batch.delays >= sliceOf(k)
              /\ \A m \in 1..batch.n :
                    sliceOf(m) < sliceOf(k) => batch.status[m] \in {"fulfilled", "rejected"}
        /\ Cardinality({k \in 1..batch.n : batch.status[k] = "pending"}) <= batch.bs
        /\ batch.n = 0 => batch.delays = 0
        /\ batch.n > 0 => batch.delays <= slices - 1
        /\ (batch.pc = "returned" /\ batch.n > 0) => batch.delays = slices - 1

\* C17 witness: a call over three items in slices of two has returned after
\* one delay, the first slice having held two pending callbacks.
C17_Witness ==
    /\ batch.pc = "returned"
    /\ batch.n = 3
    /\ batch.bs = 2
    /\ batch.delays = 1
    /\ batch.order = <<1, 2, 3>>

\* C18: every call of the callback passes the item, the index of the item in
\* the input array, and the whole input array.
C18_CallbackSeesWholeArray ==
    \A j \in 1..Len(batch.calls) :
        /\ batch.calls[j].index \in 1..batch.n
        /\ batch.calls[j].item = Item(batch.calls[j].index)
        /\ batch.calls[j].array = [k \in 1..batch.n |-> Item(k)]

(***************************************************************************)
(* SubdirectoryHandle                                                      *)
(* One handle is followed: handle.parent is the store its #parent points   *)
(* to, "null" once deleteDirectory has cleared it.  lastCall records the   *)
(* member called last and how the call ended: "ok", "disposed" (the error  *)
(* checkValidHandle throws) or "typeerror" (a member of null was read).    *)
(***************************************************************************)
Members ==
    {"parent", "path", "files", "rename", "reparent", "deleteDirectory", "addFile",
     "addTextFile", "addImage", "addImages", "renameFile", "getSubdirectory",
     "downloadSubdirectory", "deleteFile", "download"}

\* new SubdirectoryHandle(archive, path)
NewHandle(s, path) == [exists |-> TRUE, path |-> path, parent |-> s, isDeleted |-> FALSE]

\* ArchiveTool.getSubdirectory(filepath): undefined (NoHandle) when the key
\* holds a file, a new handle otherwise
getSubdirectory(fs, s, filepath) ==
    LET fp == sanitizeFilepath(filepath)
    IN  IF hasOwn(fs, fp) THEN NoHandle ELSE NewHandle(s, fp)

\* checkValidHandle: TRUE when it returns, FALSE when it throws
checkValidHandle(h) == ~h.isDeleted

\* how a member that starts with checkValidHandle ends on a disposed handle,
\* and how one that reads this.#parent without the check ends
checkedOutcome(h) == IF checkValidHandle(h) THEN "ok" ELSE "disposed"
uncheckedOutcome(h) == IF h.parent = "null" THEN "typeerror" ELSE "ok"

\* asParentPath(relativePath)
asParentPath(h, relativePath) ==
    IF isNonEmptyString(relativePath) THEN pathJoin(<<h.path, relativePath>>) ELSE h.path

\* the files getter of the handle: the entries of the parent below #path
handleFiles(h, fs) ==
    FilterSeq(fs, {e \in Range(fs) : StartsWith(e.path, h.path) /\ e.path # h.path})

\* new RegExp(`^${pattern}`, 'm') matched at the start of p: the number of
\* characters matched, -1 when there is no match.  Of the characters a
\* sanitized path can hold, '.' matches any character and '(' ')' delimit a
\* group; the others stand for themselves.
RECURSIVE regexMatch(_, _, _, _)
regexMatch(pattern, i, p, j) ==
    IF i > Len(pattern) THEN j - 1
    ELSE IF pattern[i] \in {"(", ")"} THEN regexMatch(pattern, i + 1, p, j)
    ELSE IF j > Len(p) THEN -1
    ELSE IF pattern[i] = "." \/ pattern[i] = p[j] THEN regexMatch(pattern, i + 1, p, j + 1)
    ELSE -1

\* p.replace(new RegExp(`^${oldPath}`, 'm'), newPath)
replacePrefix(p, oldPath, newPath) ==
    LET n == regexMatch(oldPath, 1, p, 1)
    IN  IF n < 0 THEN p ELSE newPath \o SubSeq(p, n + 1, Len(p))

\* the forEach of rename: each affected file is renamed in the parent
RECURSIVE renameEach(_, _, _, _, _)
renameEach(fs, affected, k, oldPath, newPath) ==
    IF k > Len(affected) THEN fs
    ELSE renameEach(renameFileIn(fs, affected[k].path,
                                 replacePrefix(affected[k].path, oldPath, newPath)),
                    affected, k + 1, oldPath, newPath)

\* the forEach of reparent: each affected file is added to the new archive
\* and deleted from the old one
RECURSIVE reparentEach(_, _, _, _, _, _, _)
reparentEach(fm, affected, k, s, t, oldPath, newPath) ==
    IF k > Len(affected) THEN fm
    ELSE LET e == affected[k]
             added == [fm EXCEPT ![t] =
                          addFileTo(@, replacePrefix(e.path, oldPath, newPath), e.blob)]
             removed == [added EXCEPT ![s] = deleteFileIn(@, e.path, FALSE)]
         IN  reparentEach(removed, affected, k + 1, s, t, oldPath, newPath)

\* the forEach of deleteDirectory
RECURSIVE deleteEach(_, _, _)
deleteEach(fs, paths, k) ==
    IF k > Len(paths) THEN fs
    ELSE deleteEach(deleteFileIn(fs, paths[k].path, FALSE), paths, k + 1)

\* the call of a member of the handle is recorded in the history lastCall:
\* whether the handle had been deleted, or had been the source of a reparent,
\* before the call
CalledWith(member, outcome, args) ==
    /\ lastCall.count < MaxCalls
    /\ lastCall' = [member |-> member, args |-> args, outcome |-> outcome,
                    wasDeleted |-> handle.isDeleted,
                    wasReparented |-> lastCall.reparented,
                    reparented |-> lastCall.reparented
                                     \/ (member = "reparent" /\ outcome = "ok"),
                    count |-> lastCall.count + 1]

Called(member, outcome) == CalledWith(member, outcome, <<>>)

\* archive.getSubdirectory(filepath), the caller keeping the handle
GetSubdirectory(s, filepath) ==
    /\ ~handle.exists
    /\ handle' = getSubdirectory(files[s], s, filepath)
    /\ UNCHANGED <<files, archive, workQueue, ops, drain, addLog, lastCall, batch, acq>>

\* get parent
HandleParent ==
    /\ handle.exists
    /\ Called("parent", checkedOutcome(handle))
    /\ UNCHANGED <<files, archive, workQueue, ops, drain, handle, addLog, batch, acq>>

\* get path
HandlePath ==
    /\ handle.exists
    /\ Called("path", checkedOutcome(handle))
    /\ UNCHANGED <<files, archive, workQueue, ops, drain, handle, addLog, batch, acq>>

\* get files
HandleFiles ==
    /\ handle.exists
    /\ Called("files", checkedOutcome(handle))
    /\ UNCHANGED <<files, archive, workQueue, ops, drain, handle, addLog, batch, acq>>

\* rename(path, recursive)
HandleRename(path, recursive) ==
    /\ handle.exists
    /\ CalledWith("rename", checkedOutcome(handle), <<path, recursive>>)
    /\ IF checkValidHandle(handle)
       THEN LET s == handle.parent
                affected == handleFiles(handle, files[s])
                newPath == getSafePath(files[s], path, Keys(affected))
            IN  /\ files' = [files EXCEPT ![s] =
                               IF recursive
                               THEN renameEach(@, affected, 1, handle.path, newPath)
                               ELSE @]
                /\ handle' = [handle EXCEPT !.path = newPath]
       ELSE UNCHANGED <<files, handle>>
    /\ UNCHANGED <<archive, workQueue, ops, drain, addLog, batch, acq>>

\* faulty variant: reparent disposes of the handle it was called on
HandleReparentDisposes(t, hasNewPath, path) ==
    /\ handle.exists
    /\ CalledWith("reparent", checkedOutcome(handle), <<t, hasNewPath, path>>)
    /\ IF checkValidHandle(handle)
       THEN LET s == handle.parent
                newPath == getSafePath(files[t], IF hasNewPath THEN path ELSE handle.path, {})
                affected == handleFiles(handle, files[s])
            IN  /\ files' = reparentEach(files, affected, 1, s, t, handle.path, newPath)
                /\ archive' = IF affected = <<>> THEN archive
                              ELSE [archive EXCEPT ![t] = markDirty(@)]
                /\ handle' = [handle EXCEPT !.parent = t, !.isDeleted = TRUE]
       ELSE UNCHANGED <<files, archive, handle>>
    /\ UNCHANGED <<workQueue, ops, drain, addLog, batch, acq>>

\* reparent(archive, newPath?)
HandleReparent(t, hasNewPath, path) ==
    /\ handle.exists
    /\ CalledWith("reparent", checkedOutcome(handle), <<t, hasNewPath, path>>)
    /\ IF checkValidHandle(handle)
       THEN LET s == handle.parent
                newPath == getSafePath(files[t], IF hasNewPath THEN path ELSE handle.path, {})
                affected == handleFiles(handle, files[s])
            IN  /\ files' = reparentEach(files, affected, 1, s, t, handle.path, newPath)
                /\ archive' = IF affected = <<>> THEN archive
                              ELSE [archive EXCEPT ![t] = markDirty(@)]
                /\ handle' = [handle EXCEPT !.parent = t]
       ELSE UNCHANGED <<files, archive, handle>>
    /\ UNCHANGED <<workQueue, ops, drain, addLog, batch, acq>>

\* deleteDirectory(recursive)
HandleDeleteDirectory(recursive) ==
    /\ handle.exists
    /\ Called("deleteDirectory", checkedOutcome(handle))
    /\ IF checkValidHandle(handle)
       THEN LET parent == handle.parent
                affectedFiles == FilterSeq(files[parent],
                                    {e \in Range(files[parent]) : StartsWith(e.path, handle.path)})
            IN  /\ handle' = [handle EXCEPT !.isDeleted = TRUE, !.parent = "null"]
                /\ files' = [files EXCEPT ![parent] =
                               IF recursive THEN deleteEach(@, affectedFiles, 1) ELSE @]
       ELSE UNCHANGED <<files, handle>>
    /\ UNCHANGED <<archive, workQueue, ops, drain, addLog, batch, acq>>

\* addFile(relativePath, file)
HandleAddFile(relativePath, blob) ==
    /\ handle.exists
    /\ Called("addFile", checkedOutcome(handle))
    /\ IF checkValidHandle(handle)
       THEN LET s == handle.parent
            IN  /\ Len(files[s]) < MaxFiles
                /\ files' = [files EXCEPT ![s] =
                               addFileTo(@, asParentPath(handle, relativePath), blob)]
                /\ archive' = [archive EXCEPT ![s] = markDirty(@)]
       ELSE UNCHANGED <<files, archive>>
    /\ UNCHANGED <<workQueue, ops, drain, handle, addLog, batch, acq>>

\* addTextFile(relativePath, text): the parent wraps the text in a Blob and
\* adds it
HandleAddTextFile(relativePath, text) ==
    /\ handle.exists
    /\ Called("addTextFile", checkedOutcome(handle))
    /\ IF checkValidHandle(handle)
       THEN LET s == handle.parent
            IN  /\ Len(files[s]) < MaxFiles
                /\ files' = [files EXCEPT ![s] =
                               addFileTo(@, asParentPath(handle, relativePath), text)]
                /\ archive' = [archive EXCEPT ![s] = markDirty(@)]
       ELSE UNCHANGED <<files, archive>>
    /\ UNCHANGED <<workQueue, ops, drain, handle, addLog, batch, acq>>

\* addImage(image, filepathOrOptions, relativeDirectory): no validity check;
\* this.#parent.addImage is read first
HandleAddImage(name, blob, relativeDirectory) ==
    /\ handle.exists
    /\ Called("addImage", uncheckedOutcome(handle))
    /\ IF handle.parent # "null"
       THEN LET s == handle.parent
            IN  /\ Len(ops) < MaxOps
                /\ ops' = Append(ops, ImageOp(s, 0, asParentPath(handle, relativeDirectory),
                                              name, blob))
                /\ workQueue' = [workQueue EXCEPT ![s] = addToWorkQueue(@, <<Len(ops) + 1>>)]
       ELSE UNCHANGED <<ops, workQueue>>
    /\ UNCHANGED <<files, archive, drain, handle, addLog, batch, acq>>

\* addImages(images, options, relativeDirectory) for one image in one slice:
\* no validity check
HandleAddImages(name, blob, relativeDirectory) ==
    /\ handle.exists
    /\ Called("addImages", uncheckedOutcome(handle))
    /\ IF handle.parent # "null"
       THEN LET s == handle.parent
                dir == asParentPath(handle, relativeDirectory)
                first == Len(ops) + 1
            IN  /\ Len(ops) + 2 <= MaxOps
                /\ ops' = ops \o <<ImageOp(s, first + 1, dir, name, blob),
                                   BatchOp(s, dir, name, blob, 1, 1)>>
                /\ workQueue' = [workQueue EXCEPT ![s] =
                                   addToWorkQueue(addToWorkQueue(@, <<first>>), <<first + 1>>)]
       ELSE UNCHANGED <<ops, workQueue>>
    /\ UNCHANGED <<files, archive, drain, handle, addLog, batch, acq>>

\* renameFile(oldRelativePath, newRelativePath)
HandleRenameFile(oldRelativePath, newRelativePath) ==
    /\ handle.exists
    /\ Called("renameFile", checkedOutcome(handle))
    /\ IF checkValidHandle(handle)
       THEN /\ files' = [files EXCEPT ![handle.parent] =
                           renameFileIn(@, asParentPath(handle, oldRelativePath),
                                        asParentPath(handle, newRelativePath))]
            /\ archive' = [archive EXCEPT ![handle.parent] = renameFileCache(@)]
       ELSE UNCHANGED <<files, archive>>
    /\ UNCHANGED <<workQueue, ops, drain, handle, addLog, batch, acq>>

\* getSubdirectory(relativePath): the handle returned is not kept
HandleGetSubdirectory(relativePath) ==
    /\ handle.exists
    /\ Called("getSubdirectory", checkedOutcome(handle))
    /\ UNCHANGED <<files, archive, workQueue, ops, drain, handle, addLog, batch, acq>>

\* ArchiveTool.downloadSubdirectory(path) up to the first await of toBlob:
\* the container is created from the files of the subdirectory as they are
\* now and handed to toBlob call d
downloadSubdirectoryCall(d, s, path) ==
    LET subdirectory == getSubdirectory(files[s], s, path)
    IN  IF ~subdirectory.exists
        THEN UNCHANGED drain
        ELSE /\ drain[d].pc \in {"idle", "done"}
             /\ drain' = [drain EXCEPT ![d] =
                            [IdleDrain EXCEPT
                               !.pc = IF workQueue[s] = <<>> THEN "resolved" ELSE "awaiting",
                               !.store = s,
                               !.snapshot = Range(workQueue[s]),
                               !.count = Len(workQueue[s]),
                               !.callOps = OpsOf(s),
                               !.given = [set |-> TRUE,
                                          zip |-> createZip(handleFiles(subdirectory, files[s]))]]]

\* downloadSubdirectory(relativePath)
HandleDownloadSubdirectory(d, relativePath) ==
    /\ handle.exists
    /\ Called("downloadSubdirectory", checkedOutcome(handle))
    /\ IF checkValidHandle(handle)
       THEN downloadSubdirectoryCall(d, handle.parent, asParentPath(handle, relativePath))
       ELSE UNCHANGED drain
    /\ UNCHANGED <<files, archive, workQueue, ops, handle, addLog, batch, acq>>

\* faulty variant: with several matches the first one is deleted
HandleDeleteFileFirstMatch(relativePathOrFileName) ==
    /\ handle.exists
    /\ CalledWith("deleteFile", checkedOutcome(handle), <<relativePathOrFileName>>)
    /\ IF checkValidHandle(handle)
       THEN LET s == handle.parent
                candidates == {k \in Keys(handleFiles(handle, files[s])) :
                                  EndsWith(k, relativePathOrFileName)}
            IN  /\ files' = [files EXCEPT ![s] =
                               IF Cardinality(candidates) >= 1
                               THEN deleteFileIn(@, CHOOSE k \in candidates : TRUE, TRUE)
                               ELSE @]
                /\ archive' = [archive EXCEPT ![s] = deleteFileCache(@)]
       ELSE UNCHANGED <<files, archive>>
    /\ UNCHANGED <<workQueue, ops, drain, handle, addLog, batch, acq>>

\* deleteFile(relativePathOrFileName)
HandleDeleteFile(relativePathOrFileName) ==
    /\ handle.exists
    /\ CalledWith("deleteFile", checkedOutcome(handle), <<relativePathOrFileName>>)
    /\ IF checkValidHandle(handle)
       THEN LET s == handle.parent
                candidates == {k \in Keys(handleFiles(handle, files[s])) :
                                  EndsWith(k, relativePathOrFileName)}
            IN  /\ files' = [files EXCEPT ![s] =
                               IF Cardinality(candidates) = 1
                               THEN deleteFileIn(@, CHOOSE k \in candidates : TRUE, TRUE)
                               ELSE @]
                /\ archive' = [archive EXCEPT ![s] = deleteFileCache(@)]
       ELSE UNCHANGED <<files, archive>>
    /\ UNCHANGED <<workQueue, ops, drain, handle, addLog, batch, acq>>

\* download(): no validity check; this.#parent.downloadSubdirectory is read
\* first
HandleDownload(d) ==
    /\ handle.exists
    /\ Called("download", uncheckedOutcome(handle))
    /\ IF handle.parent # "null"
       THEN downloadSubdirectoryCall(d, handle.parent, handle.path)
       ELSE UNCHANGED drain
    /\ UNCHANGED <<files, archive, workQueue, ops, handle, addLog, batch, acq>>

\* a caller holding one handle of store "A" and calling its members
NextHandle ==
    \/ GetSubdirectory("A", P_d)
    \/ HandleParent
    \/ HandlePath
    \/ HandleFiles
    \/ \E r \in BOOLEAN : HandleRename(P_adir, r)
    \/ \E t \in Stores, g \in BOOLEAN : HandleReparent(t, g, P_adir)
    \/ \E r \in BOOLEAN : HandleDeleteDirectory(r)
    \/ \E p \in {P_x, P_ab} : HandleAddFile(p, "b1")
    \/ HandleAddTextFile(P_x, "text")
    \/ HandleAddImage(P_x, "b2", <<>>)
    \/ HandleAddImages(P_x, "b2", <<>>)
    \/ HandleRenameFile(P_x, P_a)
    \/ HandleGetSubdirectory(P_a)
    \/ HandleDownloadSubdirectory("d1", P_a)
    \/ HandleDeleteFile(P_x)
    \/ HandleDownload("d1")
    \/ \E o \in OpIds, ok \in BOOLEAN : ImageSettle(o, ok)
    \/ \E o \in OpIds : BatchSliceDone(o)
    \/ DrainResume("d1")
    \/ ToBlobSerialize("d1")

SpecHandle == Init /\ [][NextHandle]_vars

\* C10: every call of a member of a handle that deleteDirectory had
\* invalidated before the call ends with the disposed-handle error.
C10_DisposedHandleAlwaysFails ==
    lastCall.wasDeleted => lastCall.outcome = "disposed"

(***************************************************************************)
(* Image acquisition with failover: imageToBlobHelper (the library) and    *)
(* startImageDownload (the image-downloader module)                        *)
(* A URL is the sequence of its characters.  attempts is the history of    *)
(* the strategy attempts one acquisition has started.                      *)
(***************************************************************************)
KNOWN_IMAGE_EXTENSIONS ==
    {<<"j", "p", "g">>, <<"j", "p", "e", "g">>, <<"p", "n", "g">>,
     <<"g", "i", "f">>, <<"w", "e", "b", "p">>, <<"a", "p", "n", "g">>,
     <<"a", "v", "i", "f">>, <<"s", "v", "g">>, <<"b", "m", "p">>,
     <<"i", "c", "o">>}
STATIC_IMAGE_EXTENSIONS ==
    {<<"j", "p", "g">>, <<"j", "p", "e", "g">>, <<"p", "n", "g">>,
     <<"b", "m", "p">>, <<"i", "c", "o">>}
ANIMATED_FORMATS ==
    {<<"w", "e", "b", "p">>, <<"g", "i", "f">>, <<"a", "p", "n", "g">>,
     <<"a", "v", "i", "f">>}
URL_IMAGE_FORMAT_KEYS ==
    {<<"f", "o", "r", "m", "a", "t">>, <<"f", "m">>, <<"t", "y", "p", "e">>,
     <<"i", "m", "a", "g", "e", "f", "o", "r", "m", "a", "t">>, <<"e", "x", "t">>}

\* the URLs acquisitions are given
\* "a.gif"
U_gif == <<"a", ".", "g", "i", "f">>
\* "a.GIF"
U_GIF == <<"a", ".", "G", "I", "F">>
\* "a.png"
U_png == <<"a", ".", "p", "n", "g">>
\* "a.png?fm=webp"
U_pngWebp == <<"a", ".", "p", "n", "g", "?", "f", "m", "=", "w", "e", "b", "p">>
\* "a.png?fm=jpg"
U_pngJpg == <<"a", ".", "p", "n", "g", "?", "f", "m", "=", "j", "p", "g">>
\* "a.svg?ext=GIF"
U_svgGif == <<"a", ".", "s", "v", "g", "?", "e", "x", "t", "=", "G", "I", "F">>
\* "a.xyz"
U_xyz == <<"a", ".", "x", "y", "z">>
\* "i/a"
U_bare == <<"i", "/", "a">>
\* "a.png?u=b.gif"
U_pngGif == <<"a", ".", "p", "n", "g", "?", "u", "=", "b", ".", "g", "i", "f">>
Urls == {U_gif, U_GIF, U_png, U_pngWebp, U_pngJpg, U_pngGif, U_svgGif, U_xyz, U_bare}

\* String.prototype.toLowerCase, over the letters the URLs hold
toLowerCase(w) ==
    [i \in 1..Len(w) |->
        CASE w[i] = "G" -> "g" [] w[i] = "I" -> "i" [] w[i] = "F" -> "f" [] OTHER -> w[i]]

\* String.prototype.includes
includes(w, sub) ==
    \E i \in 1..(Len(w) - Len(sub) + 1) : SubSeq(w, i, i + Len(sub) - 1) = sub

\* the position of the first character of class in w, Len(w) + 1 when none
firstOf(w, class) ==
    LET hits == {i \in 1..Len(w) : w[i] \in class}
    IN  IF hits = {} THEN Len(w) + 1 ELSE CHOOSE i \in hits : \A j \in hits : i <= j

\* new URL(url).pathname and .search, as far as the last segment and the
\* query go: the path ends before the first '?' or '#', the query runs from
\* the first '?' to the '#'
pathname(url) == SubSeq(url, 1, firstOf(url, {"?", "#"}) - 1)
search(url) ==
    LET beforeHash == SubSeq(url, 1, firstOf(url, {"#"}) - 1)
    IN  SubSeq(beforeHash, firstOf(beforeHash, {"?"}), Len(beforeHash))

\* getExtensionFromURL(url): <<>> stands for undefined
getExtensionFromURL(url) ==
    LET segments == Split(pathname(url), "/")
        lastSegment == segments[Len(segments)]
        idx == LastIndexOf(lastSegment, ".")
        ext == toLowerCase(SubSeq(lastSegment, idx + 1, Len(lastSegment)))
        \* the characters of /^[a-z0-9+]+$/
        wordChars == {"a", "b", "c", "d", "e", "f", "g", "h", "i", "j", "k", "l",
                      "m", "n", "o", "p", "q", "r", "s", "t", "u", "v", "w", "x",
                      "y", "z", "0", "1", "2", "3", "4", "5", "6", "7", "8", "9",
                      "+"}
    IN  IF idx = 0 THEN <<>>
        ELSE IF ext = <<>> \/ \E i \in 1..Len(ext) : ext[i] \notin wordChars THEN <<>>
        ELSE ext

\* getMetadataFromURL(url, options)
getMetadataFromURL(url) == [src |-> url, extension |-> getExtensionFromURL(url)]

\* faulty variant: no URL is taken for an animated one
neverAnimated(url) == FALSE

\* /\.(gif|apng|webp|avif)(?=($|[?#]))/i.test(url)
isPossiblyAnimated(url) ==
    \E i \in 1..Len(url), fmt \in {<<"g", "i", "f">>, <<"a", "p", "n", "g">>,
                                     <<"w", "e", "b", "p">>, <<"a", "v", "i", "f">>} :
        /\ url[i] = "."
        /\ i + Len(fmt) <= Len(url)
        /\ toLowerCase(SubSeq(url, i + 1, i + Len(fmt))) = fmt
        /\ (i + Len(fmt) = Len(url) \/ url[i + Len(fmt) + 1] \in {"?", "#"})

\* hasAnimatedFormatHint(url): a format key of the query string has an
\* animated format for its (first) value, or the query string holds
\* format=<fmt> or fm=<fmt>
hasAnimatedFormatHint(url) ==
    LET query == search(url)
        pairs == IF Len(query) <= 1 THEN <<>> ELSE Split(Tail(query), "&")
        key(pair) == SubSeq(pair, 1, firstOf(pair, {"="}) - 1)
        value(pair) == SubSeq(pair, firstOf(pair, {"="}) + 1, Len(pair))
        get(k) == LET at == {i \in 1..Len(pairs) : key(pairs[i]) = k}
                  IN  IF at = {} THEN <<>>
                      ELSE value(pairs[CHOOSE i \in at : \A j \in at : i <= j])
    IN  \/ \E k \in URL_IMAGE_FORMAT_KEYS : toLowerCase(get(k)) \in ANIMATED_FORMATS
        \/ \E fmt \in ANIMATED_FORMATS :
              \/ includes(toLowerCase(query), <<"f", "o", "r", "m", "a", "t", "=">> \o fmt)
              \/ includes(toLowerCase(query), <<"f", "m", "=">> \o fmt)

doesPreferNetwork(metadata, options) ==
    IF options.preferNetwork THEN TRUE
    ELSE IF options.preferCanvas THEN FALSE
    ELSE LET hasKnownExtension == /\ metadata.extension # <<>>
                                  /\ metadata.extension \in KNOWN_IMAGE_EXTENSIONS
             hasStaticExtension == /\ metadata.extension # <<>>
                                   /\ metadata.extension \in STATIC_IMAGE_EXTENSIONS
             hasUnknownExtension == metadata.extension = <<>> \/ ~hasKnownExtension
         IN  \/ hasUnknownExtension
             \/ isPossiblyAnimated(metadata.src)
             \/ (hasAnimatedFormatHint(metadata.src) /\ ~hasStaticExtension)

\* the strategy tried first, and the alternate of a strategy
preferred(a) == IF doesPreferNetwork(a.metadata, a.options) THEN "network" ELSE "canvas"
other(strategy) == IF strategy = "network" THEN "canvas" ELSE "network"

\* input is what the caller passed to imageToBlob / downloadImage ("img" or
\* "url"; "none" when imageToBlobHelper / startImageDownload is entered
\* directly) and given the options the caller passed; element is the state of the <img> the canvas strategy is handed:
\* "none", "loaded", or "loading" for one that has not finished loading
NewAcq(fn, hasElement, metadata, options) ==
    [pc |-> "idle", fn |-> fn, hasElement |-> hasElement, metadata |-> metadata,
     options |-> options, attempts |-> <<>>, download |-> "none", result |-> "none",
     error |-> "none", didNetworkFail |-> FALSE, input |-> "none", given |-> options,
     element |-> IF hasElement THEN "loaded" ELSE "none"]

\* downloadFromNetwork(isRetry) / downloadFromCanvas(isRetry) is called and
\* runs up to its await
startAttempt(a, strategy, isRetry) ==
    [a EXCEPT !.attempts = Append(@, [strategy |-> strategy, isRetry |-> isRetry,
                                      state |-> "running"])]

\* faulty variant: the catch block starts the other strategy whatever isRetry is
neverRethrows(isRetry) == FALSE

\* the catch block of downloadFromNetwork / downloadFromCanvas:
\* if (isRetry) throw error
rethrows(isRetry) == isRetry

\* imageToBlobHelper is called: the preferred strategy starts and the
\* function awaits it
ImageToBlobHelperCall ==
    /\ acq.fn = "lib"
    /\ acq.pc = "idle"
    /\ acq' = [startAttempt(acq, preferred(acq), FALSE) EXCEPT !.pc = "await"]
    /\ UNCHANGED <<files, archive, workQueue, ops, drain, handle, addLog, lastCall, batch>>

\* attempt k of imageToBlobHelper produced its blob (a fetch or a canvas
\* callback: a task, run when no continuation is waiting): download is
\* assigned; the first attempt's promise resolves
AttemptSucceeds(k) ==
    /\ acq.fn = "lib"
    /\ k \in 1..Len(acq.attempts)
    /\ acq.attempts[k].state = "running"
    /\ acq.pc # "resume"
    \* an element that has not loaded draws an empty canvas, and toBlob gives null
    /\ acq.attempts[k].strategy = "canvas" => acq.element # "loading"
    /\ acq' = [acq EXCEPT !.attempts[k].state = "ok",
                          !.download = acq.attempts[k].strategy,
                          !.pc = IF ~acq.attempts[k].isRetry /\ acq.pc = "await"
                                 THEN "resume" ELSE @]
    /\ UNCHANGED <<files, archive, workQueue, ops, drain, handle, addLog, lastCall, batch>>

\* attempt k of imageToBlobHelper threw: the catch block rethrows, or calls
\* the other strategy without awaiting it and returns, which resolves the
\* promise of attempt k
AttemptFails(k) ==
    /\ acq.fn = "lib"
    /\ k \in 1..Len(acq.attempts)
    /\ acq.attempts[k].state = "running"
    /\ LET at == acq.attempts[k]
           failed == [acq EXCEPT !.attempts[k].state = "failed"]
           awaited == ~at.isRetry /\ acq.pc = "await"
       IN  IF rethrows(at.isRetry)
           THEN acq' = [failed EXCEPT !.pc = IF awaited THEN "rejected" ELSE @,
                                      !.error = IF awaited THEN at.strategy ELSE @]
           ELSE /\ Len(acq.attempts) < MaxAttempts
                /\ acq' = [startAttempt(failed, other(at.strategy), TRUE) EXCEPT
                              !.pc = IF awaited THEN "resume" ELSE @]
    /\ UNCHANGED <<files, archive, workQueue, ops, drain, handle, addLog, lastCall, batch>>

\* imageToBlobHelper resumes after its await:
\* if (isNullish(download)) throw `Failed to download an image`
MainResumes ==
    /\ acq.fn = "lib"
    /\ acq.pc = "resume"
    /\ acq' = IF acq.download = "none"
              THEN [acq EXCEPT !.pc = "rejected", !.error = "Failed to download an image"]
              ELSE [acq EXCEPT !.pc = "fulfilled", !.result = acq.download]
    /\ UNCHANGED <<files, archive, workQueue, ops, drain, handle, addLog, lastCall, batch>>

\* startImageDownload reaches its canvas part: the element is used, or
\* createImage is awaited
enterCanvas(a, isRetry) ==
    IF a.hasElement THEN [startAttempt(a, "canvas", isRetry) EXCEPT !.pc = "await"]
    ELSE [a EXCEPT !.pc = "loading"]

\* startImageDownload is called
StartImageDownloadCall ==
    /\ acq.fn = "module"
    /\ acq.pc = "idle"
    /\ acq' = IF doesPreferNetwork(acq.metadata, acq.options)
              THEN [startAttempt(acq, "network", FALSE) EXCEPT !.pc = "await"]
              ELSE enterCanvas(acq, FALSE)
    /\ UNCHANGED <<files, archive, workQueue, ops, drain, handle, addLog, lastCall, batch>>

\* createImage of the module returned: the image, or undefined after a
\* failed load, for which startImageDownload throws
ImageLoaded(ok) ==
    /\ acq.fn = "module"
    /\ acq.pc = "loading"
    /\ acq' = IF ok
              THEN [startAttempt(acq, "canvas", acq.didNetworkFail) EXCEPT !.pc = "await"]
              ELSE [acq EXCEPT !.pc = "rejected", !.error = "Failed to load image into tag"]
    /\ UNCHANGED <<files, archive, workQueue, ops, drain, handle, addLog, lastCall, batch>>

\* the awaited attempt of startImageDownload triggered its download
ModuleAttemptSucceeds ==
    /\ acq.fn = "module"
    /\ acq.pc = "await"
    /\ acq.attempts[Len(acq.attempts)].strategy = "canvas" => acq.element # "loading"
    /\ LET k == Len(acq.attempts)
       IN  acq' = [acq EXCEPT !.attempts[k].state = "ok",
                              !.pc = "fulfilled",
                              !.result = acq.attempts[k].strategy]
    /\ UNCHANGED <<files, archive, workQueue, ops, drain, handle, addLog, lastCall, batch>>

\* the awaited attempt of startImageDownload threw: a first network attempt
\* is followed by the canvas part, a first canvas attempt by the network; a
\* second failure is logged and the function returns undefined
ModuleAttemptFails ==
    /\ acq.fn = "module"
    /\ acq.pc = "await"
    /\ LET k == Len(acq.attempts)
           at == acq.attempts[k]
           failed == [acq EXCEPT !.attempts[k].state = "failed"]
       IN  acq' = IF at.strategy = "network" /\ k = 1
                  THEN enterCanvas([failed EXCEPT !.didNetworkFail = TRUE], TRUE)
                  ELSE IF at.strategy = "canvas" /\ ~acq.didNetworkFail
                  THEN [startAttempt(failed, "network", TRUE) EXCEPT !.pc = "await"]
                  ELSE [failed EXCEPT !.pc = "fulfilled", !.result = "undefined"]
    /\ UNCHANGED <<files, archive, workQueue, ops, drain, handle, addLog, lastCall, batch>>

\* imageToBlob(inputImage, options) of the library, for an <img> and for a
\* URL: an <img> is handed to imageToBlobHelper as it is; for a URL with
\* preferCanvas an image is created first, and awaited outside any try
ImageToBlobCall ==
    /\ acq.fn = "lib"
    /\ acq.pc = "api"
    /\ acq' = IF acq.input = "url" /\ acq.options.preferCanvas
              THEN [acq EXCEPT !.pc = "creating"]
              ELSE LET a == [acq EXCEPT !.hasElement = (acq.input = "img")]
                   IN  [startAttempt(a, preferred(a), FALSE) EXCEPT !.pc = "await"]
    /\ UNCHANGED <<files, archive, workQueue, ops, drain, handle, addLog, lastCall, batch>>

\* createImage(src, downloadTimeoutMS) of imageToBlob settled: the image
\* loaded, or it failed to, or the timeout elapsed first, and then
\* imageToBlob rejects
CreateImageSettles(outcome) ==
    /\ acq.fn = "lib"
    /\ acq.pc = "creating"
    /\ acq' = IF outcome = "load"
              THEN LET a == [acq EXCEPT !.hasElement = TRUE, !.element = "loaded"]
                   IN  [startAttempt(a, preferred(a), FALSE) EXCEPT !.pc = "await"]
              ELSE [acq EXCEPT !.pc = "rejected", !.error = outcome]
    /\ UNCHANGED <<files, archive, workQueue, ops, drain, handle, addLog, lastCall, batch>>

\* downloadImage(image, options) of the module, for an <img>
\* (startImageTagDownload awaits a copy of it) and for a URL (startURLDownload
\* defaults preferNetwork to true unless preferCanvas is set)
DownloadImageCall ==
    /\ acq.fn = "module"
    /\ acq.pc = "api"
    /\ acq' = IF acq.input = "img"
              THEN [acq EXCEPT !.pc = "copying"]
              ELSE LET o == acq.options
                       a == [acq EXCEPT !.hasElement = FALSE,
                                        !.options.preferNetwork =
                                            IF o.preferCanvas THEN o.preferNetwork ELSE TRUE]
                   IN  IF doesPreferNetwork(a.metadata, a.options)
                       THEN [startAttempt(a, "network", FALSE) EXCEPT !.pc = "await"]
                       ELSE enterCanvas(a, FALSE)
    /\ UNCHANGED <<files, archive, workQueue, ops, drain, handle, addLog, lastCall, batch>>

\* createImage(src, downloadTimeoutMS) of startImageTagDownload settled: the
\* copy loaded and is used, or it did not (an error, or the timeout elapsed)
\* and the <img> of the document is used as it is
CopySettles(outcome) ==
    /\ acq.fn = "module"
    /\ acq.pc = "copying"
    /\ LET a == [acq EXCEPT !.hasElement = TRUE,
                            !.element = IF outcome = "load" THEN "loaded" ELSE @]
       IN  acq' = IF doesPreferNetwork(a.metadata, a.options)
                  THEN [startAttempt(a, "network", FALSE) EXCEPT !.pc = "await"]
                  ELSE enterCanvas(a, FALSE)
    /\ UNCHANGED <<files, archive, workQueue, ops, drain, handle, addLog, lastCall, batch>>

\* what settles the wait for a created image
LoadOutcomes == {"load", "error", "timeout"}

\* one acquisition of either function, for every input
InitAcquire ==
    /\ files = [s \in Stores |-> <<>>]
    /\ archive = [s \in Stores |-> NoZip]
    /\ workQueue = [s \in Stores |-> <<>>]
    /\ ops = <<>>
    /\ drain = [d \in Drains |-> IdleDrain]
    /\ handle = NoHandle
    /\ addLog = [s \in Stores |-> <<>>]
    /\ lastCall = NoCall
    /\ batch = NoBatch
    /\ \E fn \in {"lib", "module"}, hasElement \in BOOLEAN,
          url \in Urls,
          preferNetwork \in BOOLEAN, preferCanvas \in BOOLEAN :
          LET new == NewAcq(fn, hasElement, getMetadataFromURL(url),
                            [preferNetwork |-> preferNetwork, preferCanvas |-> preferCanvas])
          IN  \/ acq = new
              \/ /\ ~hasElement
                 /\ \E element \in {"none", "loaded", "loading"} :
                       acq = [new EXCEPT !.pc = "api",
                                         !.input = IF element = "none" THEN "url" ELSE "img",
                                         !.element = element]

NextAcquire ==
    \/ ImageToBlobHelperCall
    \/ \E k \in 1..MaxAttempts : AttemptSucceeds(k)
    \/ \E k \in 1..MaxAttempts : AttemptFails(k)
    \/ MainResumes
    \/ StartImageDownloadCall
    \/ \E ok \in BOOLEAN : ImageLoaded(ok)
    \/ ModuleAttemptSucceeds
    \/ ModuleAttemptFails
    \/ ImageToBlobCall
    \/ \E outcome \in LoadOutcomes : CreateImageSettles(outcome)
    \/ DownloadImageCall
    \/ \E outcome \in LoadOutcomes : CopySettles(outcome)

SpecAcquire == InitAcquire /\ [][NextAcquire]_vars

\* C6: when the preferred strategy has failed and the alternate is running,
\* the acquisition is still undecided; once the alternate has succeeded the
\* acquisition does not fail, and it ends with the alternate's blob.
C6_FailoverDecidesOutcome ==
    (Len(acq.attempts) = 2 /\ acq.attempts[1].state = "failed") =>
        /\ acq.attempts[2].state = "running" => acq.pc \notin {"fulfilled", "rejected"}
        /\ acq.attempts[2].state = "ok" =>
              /\ acq.pc # "rejected"
              /\ acq.pc = "fulfilled" => acq.result = acq.attempts[2].strategy

\* C7: an acquisition starts at most two attempts; the first is the preferred
\* strategy, and a second one is the other strategy, started only after the
\* first has failed; a failed second attempt is followed by no other.
C7_AtMostTwoAttempts ==
    LET at == acq.attempts
    IN  /\ Len(at) <= 2
        /\ Len(at) >= 1 => at[1].strategy = preferred(acq) /\ ~at[1].isRetry
        /\ Len(at) = 2 => /\ at[1].state = "failed"
                          /\ at[2].strategy = other(at[1].strategy)
                          /\ at[2].isRetry

\* C7 witness: imageToBlobHelper preferred the canvas, the canvas attempt and
\* then the network attempt failed, and the acquisition is over.
C7_Witness ==
    /\ acq.fn = "lib"
    /\ acq.pc = "rejected"
    /\ Len(acq.attempts) = 2
    /\ acq.attempts[1].strategy = "canvas"
    /\ acq.attempts[1].state = "failed"
    /\ acq.attempts[2].state = "failed"

(***************************************************************************)
(* sanitizeFilepath applied to bounded inputs                              *)
(***************************************************************************)

\* longest enumerated input of sanitizeFilepath
MaxPathLen == 4
PathChars == {"a", "/", ".", " "}
\* "a//b/../c.png"
P_updir == <<"a", "/", "/", "b", "/", ".", ".", "/", "c", ".", "p", "n", "g">>
SanitizeInputs == UNION {[1..n -> PathChars] : n \in 0..MaxPathLen} \cup {P_updir}

\* the argument of the call is drawn by the initial state
InitSanitize ==
    /\ files = [s \in Stores |-> <<>>]
    /\ archive = [s \in Stores |-> NoZip]
    /\ workQueue = [s \in Stores |-> <<>>]
    /\ ops = <<>>
    /\ drain = [d \in Drains |-> IdleDrain]
    /\ handle = NoHandle
    /\ addLog = [s \in Stores |-> <<>>]
    /\ batch = NoBatch
    /\ acq = NoAcq
    /\ \E path \in SanitizeInputs : lastCall = [NoCall EXCEPT !.args = <<path>>]

SanitizeFilepathCall ==
    /\ lastCall.member = "none"
    /\ lastCall' = [lastCall EXCEPT !.member = "sanitizeFilepath",
                                    !.outcome = sanitizeFilepath(lastCall.args[1])]
    /\ UNCHANGED <<files, archive, workQueue, ops, drain, handle, addLog, batch, acq>>

NextSanitize == SanitizeFilepathCall

SpecSanitize == InitSanitize /\ [][NextSanitize]_vars

sanitized(path) == lastCall.member = "sanitizeFilepath" /\ lastCall.args = <<path>>

\* C15 as stated: sanitizeFilepath("a//b/../c.png") returns "a/c.png".
C15_UpdirResolved ==
    sanitized(P_updir) => lastCall.outcome = <<"a", "/", "c", ".", "p", "n", "g">>

\* C15: sanitizeFilepath("a//b/../c.png") returns "a/b/c.png": the empty
\* segment and the '..' segment are dropped, and the segment before '..' stays.
C15_UpdirDropped ==
    sanitized(P_updir) =>
        lastCall.outcome = <<"a", "/", "b", "/", "c", ".", "p", "n", "g">>

\* C15 witness: sanitizeFilepath has been applied to "a//b/../c.png".
C15_Witness == sanitized(P_updir) /\ Len(lastCall.outcome) > 0

(***************************************************************************)
(* ArchiveTool.deleteFile(path, recursive), each call recorded             *)
(***************************************************************************)
DeleteFileLogged(s, path, recursive) ==
    /\ lastCall.count < MaxCalls
    /\ files' = [files EXCEPT ![s] = deleteFileIn(@, path, recursive)]
    /\ archive' = [archive EXCEPT ![s] = deleteFileCache(@)]
    /\ lastCall' = [NoCall EXCEPT !.member = "deleteFile", !.args = <<path, recursive>>,
                                  !.outcome = "ok", !.count = lastCall.count + 1]
    /\ UNCHANGED <<workQueue, ops, drain, handle, addLog, batch, acq>>

\* one store under addFile and deleteFile
NextDelete ==
    \/ \E p \in InputPaths, b \in Blobs : AddFile("A", p, b)
    \/ \E p \in CallPaths, r \in BOOLEAN : DeleteFileLogged("A", p, r)

SpecDelete == Init /\ [][NextDelete]_vars

\* C20: a call deleteFile(path, true) leaves no entry at the key path and no
\* entry under the directory path (a key that starts with path and '/'); a call deleteFile(path, false) removes the entry stored at exactly
\* path and nothing else.
C20_RecursiveDeleteRemovesPrefixed ==
    [][(lastCall'.count # lastCall.count /\ lastCall'.member = "deleteFile") =>
          LET path == lastCall'.args[1]
              recursive == lastCall'.args[2]
              directory == IF EndsWith(path, <<"/">>) THEN path ELSE path \o <<"/">>
          IN  /\ recursive =>
                    \A k \in Keys(files'["A"]) : k # path /\ ~StartsWith(k, directory)
              /\ ~recursive => files'["A"] = FilterSeq(files["A"],
                                   {e \in Range(files["A"]) : e.path # path})]_vars

(***************************************************************************)
(* A SubdirectoryHandle renamed and reparented between two stores that     *)
(* hold other entries                                                      *)
(***************************************************************************)
NextMove ==
    \/ \E p \in {P_adir, P_dx, P_ax} : AddFile("A", p, "b1")
    \/ AddFile("B", P_ax, "b2")
    \/ GetSubdirectory("A", P_d)
    \/ \E p \in {P_adir, P_d}, r \in BOOLEAN : HandleRename(p, r)
    \/ \E t \in Stores, g \in BOOLEAN : HandleReparent(t, g, P_adir)

SpecMove == Init /\ [][NextMove]_vars

\* the step is a call of member on a valid handle
Calls(member) ==
    /\ lastCall'.count # lastCall.count
    /\ lastCall'.member = member
    /\ lastCall'.outcome = "ok"

\* the part of key after the prefix
Suffix(key, prefix) == SubSeq(key, Len(prefix) + 1, Len(key))

\* C11: a recursive rename of a handle from path P to the destination N
\* stores every entry of the handle, which was at P + s, at N + s with the
\* same blob, and leaves no entry under P.
C11_RecursiveRenameKeepsSuffixes ==
    [][(Calls("rename") /\ lastCall'.args[2]) =>
          LET before == files[handle.parent]
              after == files'[handle.parent]
              P == handle.path
              N == handle'.path
          IN  /\ \A e \in Range(handleFiles(handle, before)) :
                    /\ hasOwn(after, N \o Suffix(e.path, P))
                    /\ Lookup(after, N \o Suffix(e.path, P)) = e.blob
              /\ ~StartsWith(N, P) =>
                    \A k \in Keys(after) : ~(StartsWith(k, P) /\ k # P)]_vars

\* C19: a reparent of a valid handle from store s to another store t, to the
\* destination N, removes every entry of the handle's view from s and leaves
\* the other entries of s as they were, keeps every entry t held, adds to t
\* one entry per entry of the view, under N and with the blob of that entry,
\* sets the handle's parent to t, and keeps the number of entries of s and t
\* together.
C19_ReparentMovesTheView ==
    [][Calls("reparent") =>
          LET s == handle.parent
              t == lastCall'.args[1]
              N == getSafePath(files[t],
                               IF lastCall'.args[2] THEN lastCall'.args[3] ELSE handle.path, {})
              view == handleFiles(handle, files[s])
              added == SubSeq(files'[t], Len(files[t]) + 1, Len(files'[t]))
          IN  /\ handle'.parent = t
              /\ Len(files'[s]) + Len(files'[t]) = Len(files[s]) + Len(files[t])
              /\ s # t =>
                    /\ files'[s] = FilterSeq(files[s], Range(files[s]) \ Range(view))
                    /\ SubSeq(files'[t], 1, Len(files[t])) = files[t]
                    /\ Len(added) = Len(view)
                    /\ \A j \in 1..Len(added) :
                          /\ added[j].blob = view[j].blob
                          /\ StartsWith(added[j].path, N)]_vars

\* C12 as stated: every member called on a handle that has been the source of
\* a reparent fails with the error of checkValidHandle.
C12_ReparentedHandleAlwaysFails ==
    lastCall.wasReparented => lastCall.outcome = "disposed"

\* C12: a reparent leaves the handle valid, with the target store as its
\* parent, and every member called on a handle that has been the source of a
\* reparent and has not been deleted passes checkValidHandle.
C12_ReparentKeepsHandleValid ==
    /\ [][Calls("reparent") =>
            (~handle'.isDeleted /\ handle'.parent = lastCall'.args[1])]_vars
    /\ []((lastCall.wasReparented /\ ~lastCall.wasDeleted) => lastCall.outcome = "ok")

\* C12 witness: addFile was called on a handle that had been reparented to
\* the other store, and it went through.
C12_Witness ==
    /\ lastCall.wasReparented
    /\ lastCall.member = "addFile"
    /\ lastCall.outcome = "ok"
    /\ handle.parent = "B"
    /\ files["B"] # <<>>

(***************************************************************************)
(* The strategy an acquisition starts with, and the wait for an element    *)
(***************************************************************************)
NoFlags(options) == ~options.preferNetwork /\ ~options.preferCanvas

C14_RawUrlStartsWithNetwork ==
    (acq.input # "none" /\ NoFlags(acq.given) /\ acq.attempts # <<>>) =>
        /\ acq.input = "url" => acq.attempts[1].strategy = "network"
        /\ acq.attempts[1].strategy = "canvas" =>
              /\ acq.input = "img"
              /\ acq.metadata.extension \in KNOWN_IMAGE_EXTENSIONS
              /\ ~isPossiblyAnimated(acq.metadata.src)

\* C13: an acquisition given an <img> that has not loaded never waits for an
\* image without a timeout and never fails because the timeout elapsed; once
\* the canvas attempt on that <img> has failed, the other strategy decides: the
\* acquisition is not over while the network attempt runs and does not fail
\* when it succeeds.
C13_TimeoutThenFallback ==
    (acq.input = "img" /\ acq.element = "loading") =>
        /\ acq.pc # "loading"
        /\ acq.error # "timeout"
        /\ (/\ Len(acq.attempts) = 2
            /\ acq.attempts[1].strategy = "canvas"
            /\ acq.attempts[1].state = "failed") =>
              /\ acq.attempts[2].state = "running" => acq.pc \notin {"fulfilled", "rejected"}
              /\ acq.attempts[2].state = "ok" => acq.pc # "rejected"

(***************************************************************************)
(* The candidates of getSafePath                                           *)
(***************************************************************************)
\* base with ' (n)' put before the trailing slash of a directory, or before
\* the extension of the last segment of a file (at its end when the segment
\* has no extension)
Numbered(base, n) ==
    LET tag == <<" ", "(">> \o Decimal(n) \o <<")">>
        segments == Split(base, "/")
        last == segments[Len(segments)]
        dot == LastIndexOf(last, ".")
        tagged == IF dot > 1
                  THEN SubSeq(last, 1, dot - 1) \o tag \o SubSeq(last, dot, Len(last))
                  ELSE last \o tag
    IN  IF EndsWith(base, <<"/">>)
        THEN SubSeq(base, 1, Len(base) - 1) \o tag \o <<"/">>
        ELSE Join(SubSeq(segments, 1, Len(segments) - 1) \o <<tagged>>, "/")

\* C22: for every path, getSafePath returns the sanitized path when it does
\* not collide, and otherwise the sanitized path numbered with the smallest
\* n >= 1 whose candidate does not collide; n is at most the number of entries
\* plus one, so the loop ends.
C22_SmallestFreeCandidate ==
    \A p \in InputPaths :
        LET fs == files["A"]
            base == sanitizeFilepath(p)
            isDir == EndsWith(base, <<"/">>)
            r == getSafePath(fs, p, {})
        IN  IF ~collides(fs, isDir, {}, base) THEN r = base
            ELSE \E n \in 1..(Len(fs) + 1) :
                    /\ r = Numbered(base, n)
                    /\ ~collides(fs, isDir, {}, r)
                    /\ \A m \in 1..(n - 1) : collides(fs, isDir, {}, Numbered(base, m))

\* C22 witness: "a/b.p" and "a/b (1).p" are stored, so getSafePath of
\* "a//../b.p" passes the first candidate and returns "a/b (2).p".
C22_Witness ==
    /\ hasOwn(files["A"], sanitizeFilepath(P_dots))
    /\ hasOwn(files["A"], Numbered(sanitizeFilepath(P_dots), 1))
    /\ getSafePath(files["A"], P_dots, {}) =
          <<"a", "/", "b", " ", "(", "2", ")", ".", "p">>

(***************************************************************************)
(* SubdirectoryHandle.deleteFile by suffix                                 *)
(***************************************************************************)
P_dax == <<"d", "/", "a", "/", "x", ".", "p">>

\* a caller filling store "A", taking the handle of "d/" and deleting by
\* suffix: "x.p" may match several keys, "a/x.p" one, "a" none
NextRemove ==
    \/ \E p \in {P_dx, P_dax, P_ax} : AddFile("A", p, "b1")
    \/ GetSubdirectory("A", P_d)
    \/ \E suffix \in {P_x, P_ax, P_a} : HandleDeleteFile(suffix)

SpecRemove == Init /\ [][NextRemove]_vars

\* C21: a call of deleteFile(suffix) on a valid handle removes the one key of
\* the view that ends with suffix when there is exactly one, and nothing
\* else; with no match or several it leaves the file maps and the handle as
\* they were, the handle still valid.
C21_DeletesOnlyUniqueMatch ==
    [][Calls("deleteFile") =>
         LET s == handle.parent
             suffix == lastCall'.args[1]
             hits == {k \in Keys(handleFiles(handle, files[s])) : EndsWith(k, suffix)}
         IN  /\ handle' = handle
             /\ ~handle'.isDeleted
             /\ IF Cardinality(hits) = 1
                THEN files' = [files EXCEPT ![s] =
                                 FilterSeq(@, {e \in Range(@) : e.path \notin hits})]
                ELSE files' = files]_vars

\* C21 witness: deleteFile("a/x.p") has removed "d/a/x.p" and left "d/x.p",
\* which ends with "x.p" as well.
C21_Witness ==
    /\ lastCall.member = "deleteFile"
    /\ lastCall.outcome = "ok"
    /\ lastCall.args = <<P_ax>>
    /\ hasOwn(files["A"], P_dx)
    /\ ~hasOwn(files["A"], P_dax)
    /\ Len(files["A"]) = MaxFiles - 1

(***************************************************************************)
(* Overlapping toBlob calls                                                *)
(***************************************************************************)
\* the operations this step takes off the work queue of store s
Removed(s) == Range(workQueue[s]) \ Range(workQueue'[s])

\* C24: with toBlob calls on one store that may overlap, no step takes an
\* operation that has not settled off the work queue, and a call builds its
\* container only when every operation queued on its store before the call
\* has settled.
C24_OverlapKeepsUnsettled ==
    [][/\ \A s \in Stores : \A o \in Removed(s) : ~Pending(o)
       /\ \A d \in Drains :
             Builds(d) => \A o \in drain[d].callOps : ~Pending(o)]_vars

(***************************************************************************)
(* downloadSubdirectory while image operations are pending                 *)
(***************************************************************************)
\* archive.downloadSubdirectory(path) up to the await inside toBlob
DownloadSubdirectory(d, s, path) ==
    /\ downloadSubdirectoryCall(d, s, path)
    /\ UNCHANGED <<files, archive, workQueue, ops, handle, addLog, lastCall, batch, acq>>

\* one store under addImage and addImages into "d/" and downloadSubdirectory
\* of "d/"; every image operation is queued before the download is called
NextSubdir ==
    \/ NoDrainInFlight /\ \E b \in Blobs : AddImage("A", P_d, P_x, b)
    \/ NoDrainInFlight /\ \E n \in 1..MaxItems, bs \in 1..MaxItems :
                             AddImages("A", P_d, P_x, "b1", n, bs)
    \/ \E o \in OpIds, ok \in BOOLEAN : ImageSettle(o, ok)
    \/ \E o \in OpIds : BatchSliceDone(o)
    \/ \E o \in OpIds : BatchDelayElapsed(o)
    \/ DownloadSubdirectory("d1", "A", P_d)
    \/ DrainResume("d1")
    \/ ToBlobSerialize("d1")

SpecSubdir == Init /\ [][NextSubdir]_vars

\* C25: the container that downloadSubdirectory("d/") serializes holds every
\* entry under "d/" that the file map holds at that moment, those written by
\* the image operations that were pending at the call included.
C25_SubdirectoryHoldsPendingWrites ==
    [][\A d \in Drains :
          (Builds(d) /\ drain[d].given.set) =>
             \A e \in Range(files[drain[d].store]) :
                StartsWith(e.path, P_d) => <<e.path, e.blob>> \in Serialized(d)]_vars

(***************************************************************************)
(* The handle of a directory and its siblings                              *)
(***************************************************************************)
P_dn == <<"d">>
P_d2x == <<"d", "2", "/", "x", ".", "p">>
P_dp == <<"d", ".", "p">>

\* a caller filling store "A" with an entry of directory "d" and two
\* siblings of it, taking the handle of "d" (given with or without its
\* slash), reading its view and deleting the directory
NextSibling ==
    \/ \E p \in {P_dx, P_d2x, P_dp}, b \in Blobs : AddFile("A", p, b)
    \/ \E p \in {P_dn, P_d} : GetSubdirectory("A", p)
    \/ HandleFiles
    \/ \E r \in BOOLEAN : HandleDeleteDirectory(r)

SpecSibling == Init /\ [][NextSibling]_vars

\* key is inside directory d: d, a slash, and the rest
Inside(key, d) == StartsWith(key, StripTrailing(d, {"/"}) \o <<"/">>)

\* C26: the view of a valid handle holds only keys inside its directory, and
\* a call of deleteDirectory leaves every entry outside the directory as it
\* was.
C26_HandleStaysInsideDirectory ==
    [][/\ (handle.exists /\ checkValidHandle(handle)) =>
             \A k \in Keys(handleFiles(handle, files[handle.parent])) :
                Inside(k, handle.path)
       /\ Calls("deleteDirectory") =>
             \A s \in Stores : \A e \in Range(files[s]) :
                ~Inside(e.path, handle.path) => e \in Range(files'[s])]_vars

(***************************************************************************)
(* The view of a handle after reparent                                     *)
(***************************************************************************)
\* C28: after a reparent of a valid handle to store t with a new path whose
\* destination differs from the handle's path, the view of the handle over t
\* is exactly the set of entries the reparent has added to t.
C28_ViewFollowsReparent ==
    [][(Calls("reparent") /\ lastCall'.args[2]) =>
          LET t == lastCall'.args[1]
              N == getSafePath(files[t], lastCall'.args[3], {})
              moved == Range(files'[t]) \ Range(files[t])
          IN  N # handle.path =>
                 Range(handleFiles(handle', files'[t])) = moved]_vars

(***************************************************************************)
(* Image acquisitions of one store that infer the same path                *)
(***************************************************************************)
\* faulty variant: the file is stored at the inferred path itself
ImageSettleOverwrites(o, ok) ==
    /\ o \in OpIds
    /\ ops[o].kind = "image"
    /\ Pending(o)
    /\ LET s == ops[o].store
           filepath == pathJoin(<<ops[o].dir, ops[o].name>>)
       IN  IF ok
           THEN /\ files' = [files EXCEPT ![s] =
                               Assign(@, sanitizeFilepath(filepath), ops[o].blob)]
                /\ archive' = [archive EXCEPT ![s] = markDirty(@)]
                /\ addLog' = [addLog EXCEPT ![s] =
                                Append(@, [path |-> sanitizeFilepath(filepath),
                                           blob |-> ops[o].blob])]
           ELSE UNCHANGED <<files, archive, addLog>>
    /\ ops' = [ops EXCEPT ![o].state = "settled"]
    /\ UNCHANGED <<workQueue, drain, handle, lastCall, batch, acq>>

\* addImageHelper after its await, as ImageSettle, with the history addLog of
\* the acquisitions that succeeded: the key and the blob addFile stored
ImageSettleLogged(o, ok) ==
    /\ o \in OpIds
    /\ ops[o].kind = "image"
    /\ Pending(o)
    /\ LET s == ops[o].store
           filepath == pathJoin(<<ops[o].dir, ops[o].name>>)
       IN  IF ok
           THEN /\ files' = [files EXCEPT ![s] = addFileTo(@, filepath, ops[o].blob)]
                /\ archive' = [archive EXCEPT ![s] = markDirty(@)]
                /\ addLog' = [addLog EXCEPT ![s] =
                                Append(@, [path |-> getSafePath(files[s], filepath, {}),
                                           blob |-> ops[o].blob])]
           ELSE UNCHANGED <<files, archive, addLog>>
    /\ ops' = [ops EXCEPT ![o].state = "settled"]
    /\ UNCHANGED <<workQueue, drain, handle, lastCall, batch, acq>>

\* one store that may hold "d/x.p" already, under addImage and addImages that
\* all infer "d/x.p", settling in any order, and toBlob
NextImages ==
    \/ ops = <<>> /\ AddFile("A", P_dx, "b1")
    \/ \E b \in Blobs : AddImage("A", P_d, P_x, b)
    \/ \E n \in 1..MaxItems, bs \in 1..MaxItems : AddImages("A", P_d, P_x, "b2", n, bs)
    \/ \E o \in OpIds, ok \in BOOLEAN : ImageSettleLogged(o, ok)
    \/ \E o \in OpIds : BatchSliceDone(o)
    \/ \E o \in OpIds : BatchDelayElapsed(o)
    \/ NoDrainInFlight /\ ToBlobCall("d1", "A", NoZip)
    \/ DrainResume("d1")
    \/ ToBlobSerialize("d1")

SpecImages == Init /\ [][NextImages]_vars

\* image operation o settles in this step
Settles(o) == ops[o].kind = "image" /\ Pending(o) /\ ~Pending(o)'

\* C27: an acquisition that succeeds adds exactly one entry, under a key the
\* map did not hold and with its blob, and keeps every entry the map held;
\* one that fails leaves the map as it was; and when toBlob builds the
\* container the map holds one entry per acquisition that has succeeded, each
\* with its blob.
C27_OneEntryPerAcquisition ==
    [][/\ \A o \in OpIds :
             Settles(o) =>
                LET s == ops[o].store
                IN  IF Len(addLog'[s]) > Len(addLog[s])
                    THEN \E k \in Keys(files'[s]) \ Keys(files[s]) :
                            files'[s] = Append(files[s], [path |-> k, blob |-> ops[o].blob])
                    ELSE files' = files
       /\ \A d \in Drains :
             Builds(d) =>
                LET log == addLog[drain[d].store]
                    fs == files[drain[d].store]
                IN  /\ \A i \in 1..Len(log) :
                          hasOwn(fs, log[i].path) /\ Lookup(fs, log[i].path) = log[i].blob
                    /\ \A i \in 1..Len(log), j \in 1..Len(log) :
                          i # j => log[i].path # log[j].path]_vars

\* C27 witness: the container was built after three acquisitions of "d/x.p":
\* two succeeded, the later one with the blob "b1" first, and one failed.
C27_Witness ==
    /\ drain["d1"].pc = "done"
    /\ Len(ops) = 3
    /\ \A o \in OpIds : ops[o].kind = "image" /\ ~Pending(o)
    /\ ops[1].blob = "b2" /\ ops[3].blob = "b1"
    /\ Len(addLog["A"]) = 2
    /\ addLog["A"][1] = [path |-> P_dx, blob |-> "b1"]
    /\ addLog["A"][2].blob = "b2"
    /\ Len(files["A"]) = 2

(***************************************************************************)
(* fromNodes: traversal callbacks in batches                               *)
(* A traversal callback is modelled as an asynchronous function that adds  *)
(* one file when it fulfils, like the operation of addImage.               *)
(***************************************************************************)
\* fromNodes(nodes, callback, {batchSize}): batchDelayForEach runs up to its
\* first await, so traverseNode pushes the callbacks of the first slice; the
\* promise of batchDelayForEach itself is dropped, not pushed
FromNodes(s, dir, name, blob, n, bs) ==
    /\ Len(ops) + n + 1 <= MaxOps
    /\ LET k == Min2(bs, n)
           first == Len(ops) + 1
           outer == first + k
       IN  /\ ops' = ops \o [j \in 1..k |-> ImageOp(s, outer, dir, name, blob)]
                         \o <<BatchOp(s, dir, name, blob, n, bs)>>
           /\ workQueue' = [workQueue EXCEPT ![s] = addToWorkQueue(@, IdRun(first, k))]
    /\ UNCHANGED <<files, archive, drain, handle, addLog, lastCall, batch, acq>>

\* one store under fromNodes and toBlob calls that do not overlap
NextTraverse ==
    \/ NoDrainInFlight /\ \E n \in 1..MaxItems, bs \in 1..MaxItems :
                             FromNodes("A", P_d, P_x, "b1", n, bs)
    \/ \E o \in OpIds, ok \in BOOLEAN : ImageSettle(o, ok)
    \/ \E o \in OpIds : BatchSliceDone(o)
    \/ \E o \in OpIds : BatchDelayElapsed(o)
    \/ NoDrainInFlight /\ ToBlobCall("d1", "A", NoZip)
    \/ DrainResume("d1")
    \/ ToBlobSerialize("d1")

SpecTraverse == Init /\ [][NextTraverse]_vars

\* C23: when a toBlob call made after fromNodes builds its container, the
\* callback of every node given to that fromNodes, those of the second and
\* later batches included, has been scheduled and has settled.
C23_TraversalDrainedBeforeSerialize ==
    [][\A d \in Drains :
          Builds(d) =>
             \A o \in drain[d].callOps :
                ops[o].kind = "batch" =>
                   /\ Cardinality(ChildrenOf(o)) = ops[o].n
                   /\ \A c \in ChildrenOf(o) : ~Pending(c)]_vars

(***************************************************************************)
(* Termination of batchDelayForEach                                        *)
(***************************************************************************)
\* any list of up to MaxItems items and any batchSize from 0
InitBatchLive ==
    /\ files = [s \in Stores |-> <<>>]
    /\ archive = [s \in Stores |-> NoZip]
    /\ workQueue = [s \in Stores |-> <<>>]
    /\ ops = <<>>
    /\ drain = [d \in Drains |-> IdleDrain]
    /\ handle = NoHandle
    /\ addLog = [s \in Stores |-> <<>>]
    /\ lastCall = NoCall
    /\ acq = NoAcq
    /\ \E n \in 0..MaxItems, bs \in 0..MaxItems :
          \E behav \in [1..n -> Behaviours] : batch = NewBatch(n, bs, behav)

\* the call is made, every callback promise settles, Promise.allSettled
\* resolves once its promises have settled, and every delay elapses
SpecBatchLive ==
    /\ InitBatchLive
    /\ [][NextBatch]_vars
    /\ WF_vars(BatchCall)
    /\ WF_vars(\E k \in 1..MaxItems : CallbackSettles(k))
    /\ WF_vars(BatchSliceSettled)
    /\ WF_vars(BatchDelayDone)

\* C30: every call of batchDelayForEach, with any batchSize from 0, comes to
\* its end: it returns its results (or rejects with what a callback threw).
C30_BatchTerminates == <>(batch.pc \in {"returned", "rejected"})

(***************************************************************************)
(* Conversion of the acquired blob: getImageBlobFromNetwork, convertBlob   *)
(* and convertBlobToFormat                                                 *)
(* A blob is the record of its type, the format its bytes are in.  A mime  *)
(* is a string; "none" stands for undefined.                               *)
(***************************************************************************)
\* the entries of MIME_TO_EXTENSION_MAP for the mimes used here
MIME_TO_EXTENSION_MAP ==
    [m \in {"image/jpeg", "image/png", "image/gif", "image/webp", "image/avif"} |->
        CASE m = "image/jpeg" -> <<"j", "p", "g">>
          [] m = "image/png" -> <<"p", "n", "g">>
          [] m = "image/gif" -> <<"g", "i", "f">>
          [] m = "image/webp" -> <<"w", "e", "b", "p">>
          [] m = "image/avif" -> <<"a", "v", "i", "f">>]

\* getExtensionFromMime(mime) for the mimes of the map; <<>> stands for
\* undefined
getExtensionFromMime(mime) ==
    IF mime \in DOMAIN MIME_TO_EXTENSION_MAP THEN MIME_TO_EXTENSION_MAP[mime] ELSE <<>>

\* getDownloadFilename({url, mime, defaultExt: 'img', defaultBase: 'image'})
\* with no overrideName
getDownloadFilename(url, mime) ==
    LET extFromMime == IF mime # "none" THEN getExtensionFromMime(mime) ELSE <<>>
        extFromURL == getExtensionFromURL(url)
        ext == IF extFromMime # <<>> THEN extFromMime
               ELSE IF extFromURL # <<>> THEN extFromURL ELSE <<"i", "m", "g">>
        segments == Split(pathname(url), "/")
        lastSeg == segments[Len(segments)]
        dotIndex == LastIndexOf(lastSeg, ".")
    IN  IF lastSeg # <<>>
        THEN (IF dotIndex > 1 THEN SubSeq(lastSeg, 1, dotIndex - 1) ELSE lastSeg)
                \o <<".">> \o ext
        ELSE <<"i", "m", "a", "g", "e", ".">> \o ext

\* what the browser does with the conversion: it encodes to the target, it
\* does not know the target type and canvas.toBlob encodes PNG instead, or a
\* step of the conversion fails
ConversionOutcomes == {"encoded", "unsupported", "failed"}

\* convertBlobToFormat(blob, targetMime): every failure is caught inside and
\* the original blob is returned
convertBlobToFormat(blob, targetMime, outcome) ==
    IF targetMime = "none" THEN blob
    ELSE CASE outcome = "encoded" -> [type |-> targetMime]
           [] outcome = "unsupported" -> [type |-> "image/png"]
           [] outcome = "failed" -> blob

\* convertBlob(download, options); its catch is never entered, since
\* convertBlobToFormat does not throw
convertBlob(download, options, outcome) ==
    IF options.convertMime = "none" \/ options.convertMime = download.mime
    THEN download
    ELSE [download EXCEPT
            !.blob = convertBlobToFormat(download.blob, options.convertMime, outcome),
            !.mime = options.convertMime]

SourceMimes == {"image/png", "image/jpeg", "image/gif"}
ConvertMimes == {"none", "image/webp", "image/avif", "image/jpeg"}

\* an acquisition from the network that is waiting for the response
InitConvert ==
    /\ files = [s \in Stores |-> <<>>]
    /\ archive = [s \in Stores |-> NoZip]
    /\ workQueue = [s \in Stores |-> <<>>]
    /\ ops = <<>>
    /\ drain = [d \in Drains |-> IdleDrain]
    /\ handle = NoHandle
    /\ addLog = [s \in Stores |-> <<>>]
    /\ lastCall = NoCall
    /\ batch = NoBatch
    /\ \E url \in {U_png, U_gif, U_bare, U_xyz}, convertMime \in ConvertMimes :
          acq = [pc |-> "fetching", src |-> url, options |-> [convertMime |-> convertMime],
                 download |-> [blob |-> [type |-> "none"], mime |-> "none"],
                 name |-> <<>>]

\* getImageBlobFromNetwork: the response arrives with an image content type
\* and the blob is read; convertBlob is entered
NetworkResponds(contentType) ==
    /\ acq.pc = "fetching"
    /\ acq' = [acq EXCEPT !.pc = "converting",
                          !.download = [blob |-> [type |-> contentType],
                                        mime |-> contentType]]
    /\ UNCHANGED <<files, archive, workQueue, ops, drain, handle, addLog, lastCall, batch>>

\* getImageBlobFromNetwork throws: network error, status, or not an image
NetworkFails ==
    /\ acq.pc = "fetching"
    /\ acq' = [acq EXCEPT !.pc = "failed"]
    /\ UNCHANGED <<files, archive, workQueue, ops, drain, handle, addLog, lastCall, batch>>

\* convertBlob returns and imageToBlobHelper derives the filename from the
\* mime of the download
ConvertSettles(outcome) ==
    /\ acq.pc = "converting"
    /\ LET download == convertBlob(acq.download, acq.options, outcome)
       IN  acq' = [acq EXCEPT !.pc = "done",
                             !.download = download,
                             !.name = getDownloadFilename(acq.src, download.mime)]
    /\ UNCHANGED <<files, archive, workQueue, ops, drain, handle, addLog, lastCall, batch>>

NextConvert ==
    \/ \E contentType \in SourceMimes : NetworkResponds(contentType)
    \/ NetworkFails
    \/ \E outcome \in ConversionOutcomes : ConvertSettles(outcome)

SpecConvert == InitConvert /\ [][NextConvert]_vars

\* C29: the mime of an acquisition result is the type of the blob of the
\* result, and the filename ends with the extension of that type.
C29_MimeDescribesBlob ==
    acq.pc = "done" =>
        /\ acq.download.mime = acq.download.blob.type
        /\ EndsWith(acq.name, <<".">> \o MIME_TO_EXTENSION_MAP[acq.download.blob.type])


=============================================================================
